---------------------------- MODULE Spec2Model ----------------------------
(***************************************************************************)
(* A model of the libplist crate of libimobiledevice-rust: the safe value  *)
(* layer (node.rs, native.rs, internal.rs) over the libplist engine.       *)
(*                                                                         *)
(* The engine is the C library declared in libplist-sys/src/lib.rs.  It is *)
(* modelled as a heap of nodes by the contract its declarations, the doc   *)
(* comments of node.rs and the tests of the crate state: constructors      *)
(* allocate a root, plist_free releases a whole subtree, the array and     *)
(* dictionary calls attach, replace and release children, out-of-bounds    *)
(* mutation crashes.  Everything above the engine is translated from the   *)
(* Rust source.                                                            *)
(*                                                                         *)
(* Rust's borrow checker is part of the program's semantics ("safe API"):  *)
(* it is modelled by the loans in `refs`.  A reference is derived from an  *)
(* owning handle or from an exclusive reference, which it freezes for as   *)
(* long as it lives; the signature of each method decides what the result  *)
(* is derived from.                                                        *)
(***************************************************************************)
EXTENDS Integers, Sequences, FiniteSets, TLC

VARIABLES
    heap,       \* the engine's memory: address -> node
    owned,      \* the addresses held by live OwnedNode values
    refs,       \* the live references (&Node, &mut Node, views, iterators)
    leaked,     \* raw addresses handed out by OwnedNode::take to the caller
    crashed,    \* the process was aborted (by the engine or by a panic)
    last,       \* the last operation and what it returned
    original,   \* the native value (or the documents) a conversion starts from
    res         \* how far the conversion got and what it returned

vars == <<heap, owned, refs, leaked, crashed, last, original, res>>

\* What the operations on handles and references leave alone.
native == <<original, res>>

\* Bounds of the model.
MaxNodes == 3
MaxRefs == 4

\* The null address (std::ptr::null_mut).
NULL == 0

-----------------------------------------------------------------------------
(* Small helpers on sequences. *)

Range(s) == {s[i] : i \in DOMAIN s}

\* First index of x in s, 0 when absent.
IndexOf(s, x) ==
    IF \E i \in DOMAIN s : s[i] = x
    THEN CHOOSE i \in DOMAIN s : s[i] = x /\ \A j \in DOMAIN s : s[j] = x => i <= j
    ELSE 0

RemoveAt(s, i) == [j \in 1..(Len(s) - 1) |-> IF j < i THEN s[j] ELSE s[j + 1]]

InsertAt(s, i, x) ==
    [j \in 1..(Len(s) + 1) |-> IF j < i THEN s[j] ELSE IF j = i THEN x ELSE s[j - 1]]

ReplaceAt(s, i, x) == [s EXCEPT ![i] = x]

-----------------------------------------------------------------------------
(* The engine: libplist, as declared in libplist-sys/src/lib.rs.           *)

\* plist_type
PLIST_BOOLEAN == "Boolean"
PLIST_UINT == "UInt"
PLIST_REAL == "Real"
PLIST_STRING == "String"
PLIST_ARRAY == "Array"
PLIST_DICT == "Dict"
PLIST_DATE == "Date"
PLIST_DATA == "Data"
PLIST_KEY == "Key"
PLIST_UID == "Uid"
PLIST_NONE == "None"

plist_type ==
    {PLIST_BOOLEAN, PLIST_UINT, PLIST_REAL, PLIST_STRING, PLIST_ARRAY, PLIST_DICT,
     PLIST_DATE, PLIST_DATA, PLIST_KEY, PLIST_UID, PLIST_NONE}

\* A slot of engine memory.  st is "unused" (never allocated), "live" or
\* "freed"; frees counts the calls of free() on the address.  A freed slot is
\* never handed out again, so that a stale address stays recognisable, and
\* what it holds is garbage: the model keeps none of it.
\* A dictionary keeps its keys in `keys`, parallel to `kids`.
UnusedSlot ==
    [st |-> "unused", tag |-> PLIST_NONE, val |-> <<>>, kids |-> <<>>, keys |-> <<>>,
     parent |-> NULL, frees |-> 0]

EmptyHeap(n) == [a \in 1..n |-> UnusedSlot]

FreeAddrs(h) == {a \in DOMAIN h : h[a].st = "unused"}

Allocated(h) == {a \in DOMAIN h : h[a].st # "unused"}

Live(h) == {a \in DOMAIN h : h[a].st = "live"}

\* malloc: the lowest unused address, NULL when memory is exhausted.
Malloc(h) ==
    IF FreeAddrs(h) = {} THEN NULL
    ELSE CHOOSE a \in FreeAddrs(h) : \A b \in FreeAddrs(h) : a <= b

\* plist_new_*: a fresh root of the given tag and payload.
PlistNewNode(h, tag, val) ==
    LET a == Malloc(h)
    IN  IF a = NULL THEN [heap |-> h, ptr |-> NULL]
        ELSE [heap |-> [h EXCEPT ![a] = [st |-> "live", tag |-> tag, val |-> val,
                                         kids |-> <<>>, keys |-> <<>>,
                                         parent |-> NULL, frees |-> 0]],
              ptr |-> a]

RECURSIVE Descendants(_, _)
\* The subtree of a, a included.
Descendants(h, a) ==
    {a} \cup UNION {Descendants(h, h[a].kids[i]) : i \in DOMAIN h[a].kids}

\* Unlink a from its parent's child list (and key list).
Detach(h, a) ==
    LET p == h[a].parent
        i == IF p = NULL THEN 0 ELSE IndexOf(h[p].kids, a)
    IN  IF i = 0 THEN h
        ELSE [h EXCEPT ![p].kids = RemoveAt(@, i),
                       ![p].keys = IF h[p].tag = PLIST_DICT THEN RemoveAt(@, i) ELSE @,
                       ![a].parent = NULL]

\* plist_free: unlink the node and release its whole subtree.
PlistFree(h, a) ==
    LET sub == Descendants(h, a)
        d == Detach(h, a)
    IN  [b \in DOMAIN h |->
            IF b \in sub THEN [UnusedSlot EXCEPT !.st = "freed", !.frees = d[b].frees + 1]
            ELSE d[b]]

\* plist_get_parent / plist_get_node_type
PlistGetParent(h, a) == h[a].parent

PlistGetNodeType(h, a) == h[a].tag

\* plist_array_get_size / plist_dict_get_size
PlistArrayGetSize(h, a) == Len(h[a].kids)

PlistDictGetSize(h, a) == Len(h[a].kids)

\* plist_array_get_item: the n-th child (from 0), NULL out of bounds.
PlistArrayGetItem(h, a, n) ==
    IF n >= 0 /\ n < Len(h[a].kids) THEN h[a].kids[n + 1] ELSE NULL

\* plist_array_get_item_index: the position of a in its parent, from 0.
PlistArrayGetItemIndex(h, a) == IndexOf(h[h[a].parent].kids, a) - 1

\* plist_dict_get_item: the value stored under key, NULL when absent.
PlistDictGetItem(h, a, key) ==
    LET i == IndexOf(h[a].keys, key)
    IN  IF i = 0 THEN NULL ELSE h[a].kids[i]

\* Strings and keys are sequences of bytes.  NoKey is the null char pointer (no
\* byte is negative).
NoKey == <<-1>>

\* plist_dict_get_item_key: the key a value is stored under, the null pointer
\* when its parent is no dictionary.

PlistDictGetItemKey(h, a) ==
    LET p == h[a].parent
    IN  IF p # NULL /\ h[p].tag = PLIST_DICT /\ IndexOf(h[p].kids, a) # 0
        THEN h[p].keys[IndexOf(h[p].kids, a)]
        ELSE NoKey

\* Attach item (a root) under a at position i (from 1), with a key for a dict.
Attach(h, a, i, key, item) ==
    [h EXCEPT ![a].kids = InsertAt(@, i, item),
              ![a].keys = IF h[a].tag = PLIST_DICT THEN InsertAt(@, i, key) ELSE @,
              ![item].parent = a]

\* plist_array_append_item
PlistArrayAppendItem(h, a, item) == Attach(h, a, Len(h[a].kids) + 1, NoKey, item)

\* plist_array_insert_item, n in 0..size
PlistArrayInsertItem(h, a, item, n) == Attach(h, a, n + 1, NoKey, item)

\* plist_array_set_item, n in 0..size-1: the old child is released and the
\* item takes its place.
PlistArraySetItem(h, a, item, n) ==
    LET old == PlistArrayGetItem(h, a, n)
    IN  Attach(PlistFree(h, old), a, n + 1, NoKey, item)

\* plist_array_remove_item, n in 0..size-1
PlistArrayRemoveItem(h, a, n) == PlistFree(h, PlistArrayGetItem(h, a, n))

\* plist_dict_set_item: replaces (and releases) the value of an existing key
\* in place, appends a new entry otherwise.
PlistDictSetItem(h, a, key, item) ==
    LET i == IndexOf(h[a].keys, key)
    IN  IF i = 0 THEN Attach(h, a, Len(h[a].kids) + 1, key, item)
        ELSE Attach(PlistFree(h, h[a].kids[i]), a, i, key, item)

\* plist_dict_remove_item, key present
PlistDictRemoveItem(h, a, key) == PlistFree(h, PlistDictGetItem(h, a, key))


\* A faulty cursor: it stays on the first entry.
PlistDictNextItemStaying(h, a, pos) == IF pos < Len(h[a].kids) THEN 1 ELSE 0

\* plist_dict_next_item with a cursor that has yielded pos entries: the next
\* entry's position (from 1), 0 at the end.
PlistDictNextItem(h, a, pos) == IF pos < Len(h[a].kids) THEN pos + 1 ELSE 0

RECURSIVE CopyTree(_, _)
\* plist_copy: a deep copy of the subtree of a, as a fresh root.
CopyTree(h, a) ==
    LET n == PlistNewNode(h, h[a].tag, h[a].val)
        RECURSIVE Kids(_, _)
        Kids(g, i) ==
            IF i > Len(h[a].kids) THEN [heap |-> g, ptr |-> n.ptr]
            ELSE LET c == CopyTree(g, h[a].kids[i])
                 IN  Kids(Attach(c.heap, n.ptr, i,
                                 IF h[a].tag = PLIST_DICT THEN h[a].keys[i] ELSE NoKey,
                                 c.ptr), i + 1)
    IN  Kids(n.heap, 1)

\* A faulty copy: the source itself is handed back.
PlistCopyAliasing(h, a) == [heap |-> h, ptr |-> a]

\* plist_copy
PlistCopy(h, a) == CopyTree(h, a)

\* A document tree, as the engine's parsers produce it.
TBool(b) ==
    [tag |-> PLIST_BOOLEAN, val |-> <<IF b THEN 1 ELSE 0>>, kids |-> <<>>, keys |-> <<>>]

TArray(kids) == [tag |-> PLIST_ARRAY, val |-> <<>>, kids |-> kids, keys |-> <<>>]

TDict(keys, kids) == [tag |-> PLIST_DICT, val |-> <<>>, kids |-> kids, keys |-> keys]

RECURSIVE TreeSize(_)
TreeSize(t) ==
    LET RECURSIVE Sum(_)
        Sum(i) == IF i > Len(t.kids) THEN 0 ELSE TreeSize(t.kids[i]) + Sum(i + 1)
    IN  1 + Sum(1)

RECURSIVE BuildTree(_, _)
\* The engine allocating a parsed document.
BuildTree(h, t) ==
    LET n == PlistNewNode(h, t.tag, t.val)
        RECURSIVE Kids(_, _)
        Kids(g, i) ==
            IF i > Len(t.kids) THEN [heap |-> g, ptr |-> n.ptr]
            ELSE LET c == BuildTree(g, t.kids[i])
                 IN  Kids(Attach(c.heap, n.ptr, i,
                                 IF t.tag = PLIST_DICT THEN t.keys[i] ELSE NoKey,
                                 c.ptr), i + 1)
    IN  Kids(n.heap, 1)

\* The keys "a" and "b".
KeyA == <<97>>

KeyB == <<98>>

Keys == {KeyA, KeyB}

\* The documents the model deserializes, and what the engine's parsers make of
\* them: "??" is the malformed input of node_tests::test_decode_from_invalid.
XmlDocs ==
    {"??",
     "<plist><true/></plist>",
     "<plist><array><true/><false/></array></plist>",
     "<plist><dict><key>a</key><true/><key>b</key><array><true/></array></dict></plist>",
     "<plist><dict><key>a</key><true/><key>b</key><dict><key>a</key><true/></dict></dict></plist>"}

BinDocs == {"??", "bplist00:false", "bplist00:[{}]"}

WellFormed(data) == data # "??"

DocTree(data) ==
    CASE data = "<plist><true/></plist>" -> TBool(TRUE)
      [] data = "<plist><array><true/><false/></array></plist>" ->
            TArray(<<TBool(TRUE), TBool(FALSE)>>)
      [] data = "<plist><dict><key>a</key><true/><key>b</key><array><true/></array></dict></plist>" ->
            TDict(<<KeyA, KeyB>>, <<TBool(TRUE), TArray(<<TBool(TRUE)>>)>>)
      [] data = "<plist><dict><key>a</key><true/><key>b</key><dict><key>a</key><true/></dict></dict></plist>" ->
            TDict(<<KeyA, KeyB>>, <<TBool(TRUE), TDict(<<KeyA>>, <<TBool(TRUE)>>)>>)
      [] data = "bplist00:false" -> TBool(FALSE)
      [] data = "bplist00:[{}]" -> TArray(<<TDict(<<>>, <<>>)>>)

\* plist_from_xml / plist_from_bin: the output address stays as it was (NULL)
\* when the input is malformed.
PlistFromXml(h, data) ==
    IF WellFormed(data) THEN BuildTree(h, DocTree(data)) ELSE [heap |-> h, ptr |-> NULL]

PlistFromBin(h, data) ==
    IF WellFormed(data) THEN BuildTree(h, DocTree(data)) ELSE [heap |-> h, ptr |-> NULL]

-----------------------------------------------------------------------------
(* node.rs: owning handles, references and type checks.                    *)

\* An Option is the empty set (None) or a singleton (Some).
None == {}

Some(x) == {x}

\* OwnedNode::from_ptr: wraps the address, unchecked.
OwnedNodeFromPtr(node) == Some(node)

\* A faulty try_from_ptr: the address is wrapped without the null check.
OwnedNodeTryFromPtrUnchecked(node) == OwnedNodeFromPtr(node)

\* OwnedNode::try_from_ptr: None for the null address.
OwnedNodeTryFromPtr(node) == IF node = NULL THEN None ELSE OwnedNodeFromPtr(node)

\* BorrowedNode::try_from_ptr / try_from_mut_ptr (<*const Self>::as_ref): None
\* for the null address.
NodeTryFromPtr(node) == IF node = NULL THEN None ELSE Some(node)

\* A faulty take: the handle is not forgotten, so its destructor runs as the
\* call returns.
OwnedNodeTakeAndDrop(h, node) == PlistFree(h, node)

\* OwnedNode::take: hands out the raw address and forgets the handle, so that
\* its destructor does not run; the engine's memory is as it was.
OwnedNodeTake(h, node) == h

\* impl Drop for OwnedNode
OwnedNodeDrop(h, node) == PlistFree(h, node)

\* Result<(), PlistError>
Ok == [ok |-> TRUE, err |-> "", tag |-> PLIST_NONE]

UnsupportedType(t) == [ok |-> FALSE, err |-> "UnsupportedType", tag |-> t]

\* Node::node_type
NodeType(h, node) == PlistGetNodeType(h, node)

\* A faulty expect_type: the error names the expected tag.
ExpectTypeNamingExpected(h, node, ty) ==
    IF NodeType(h, node) = ty THEN Ok ELSE UnsupportedType(ty)

\* Node::expect_type
ExpectType(h, node, ty) ==
    LET real_ty == NodeType(h, node)
    IN  IF real_ty = ty THEN Ok ELSE UnsupportedType(real_ty)

\* Node::array / array_mut / dict / dict_mut: the view is the same address
\* after a type check.
NodeArray(h, node) == ExpectType(h, node, PLIST_ARRAY)

NodeDict(h, node) == ExpectType(h, node, PLIST_DICT)

\* OwnedNode::deserialize: output starts null; the reader may fill it in.
Deserialize(h, data, xml) ==
    LET r == IF xml THEN PlistFromXml(h, data) ELSE PlistFromBin(h, data)
    IN  [heap |-> r.heap, ret |-> OwnedNodeTryFromPtr(r.ptr)]

-----------------------------------------------------------------------------
(* native.rs: the native types and their casts.                            *)

\* An integer of 16, 32 or 64 bits is the sequence of its 16-bit limbs, least
\* significant first (its two's complement bit pattern); usize and isize are
\* 64 bits wide.
IntTypes == {"u16", "i16", "u32", "i32", "u64", "i64", "usize", "isize"}

Limbs(ty) ==
    CASE ty \in {"u16", "i16"} -> 1
      [] ty \in {"u32", "i32"} -> 2
      [] OTHER -> 4

Signed(ty) == ty \in {"i16", "i32", "i64", "isize"}

\* A faulty cast: zero extension whatever the type.
AsU64ZeroExtending(ty, v) == [i \in 1..4 |-> IF i <= Len(v) THEN v[i] ELSE 0]

\* `*self as u64`: sign extension of a signed type, zero extension otherwise.
AsU64(ty, v) ==
    LET fill == IF Signed(ty) /\ v[Len(v)] >= 2^15 THEN 2^16 - 1 ELSE 0
    IN  [i \in 1..4 |-> IF i <= Len(v) THEN v[i] ELSE fill]

\* A faulty cast: a payload beyond the width of the type gives its largest
\* bit pattern.
AsIntSaturating(ty, u) ==
    IF \E i \in DOMAIN u : i > Limbs(ty) /\ u[i] # 0
    THEN [i \in 1..Limbs(ty) |-> 2^16 - 1]
    ELSE SubSeq(u, 1, Limbs(ty))

\* `result as $ty` from u64: truncation to the width of the type.
AsInt(ty, u) == SubSeq(u, 1, Limbs(ty))

\* A floating-point number is <<k, m, e>>: k = 0 for the finite m * 2^e (m odd,
\* or 0 with e = 0), k = 1 for +infinity, k = 2 for NaN.  An f32 has a 24-bit
\* significand, a c_double (f64) a 53-bit one.
RealTypes == {"f32", "f64"}

NaN == <<2, 0, 0>>

RECURSIVE Normalized(_, _)
Normalized(m, e) ==
    IF m = 0 THEN <<0, 0, 0>>
    ELSE IF m % 2 = 0 THEN Normalized(m \div 2, e + 1)
    ELSE <<0, m, e>>

Abs(n) == IF n < 0 THEN 0 - n ELSE n

RECURSIVE Shift(_, _)
\* The number of low bits to drop for n to fit in `bits` bits.
Shift(n, bits) == IF n < 2^bits THEN 0 ELSE 1 + Shift(n \div 2, bits)

\* `*self as c_double`: every f32 is an f64, the value is kept.
AsCDouble(ty, v) == v

\* `d as f32` from c_double: rounding to nearest, ties to even, of the
\* significand to 24 bits.
AsF32(d) ==
    IF d[1] # 0 THEN d
    ELSE LET a == Abs(d[2])
             s == Shift(a, 24)
             q == a \div 2^s
             r == a % 2^s
             up == 2 * r > 2^s \/ (2 * r = 2^s /\ q % 2 = 1)
             m == IF up THEN q + 1 ELSE q
         IN  Normalized(IF d[2] < 0 THEN 0 - m ELSE m, d[3] + s)

\* A faulty cast: through f32 whatever the type.
AsRealThroughF32(ty, d) == AsF32(d)

\* `result as $ty` from c_double: `as f64` keeps the value.
AsReal(ty, d) == IF ty = "f64" THEN d ELSE AsF32(d)

\* Strings are sequences of bytes.  UTF-8 over the bytes of the model: 0x00 and
\* 0x61 stand alone, 0xC3 leads a two-byte sequence, 0x88 continues one.
RECURSIVE ValidUtf8(_)
ValidUtf8(s) ==
    IF s = <<>> THEN TRUE
    ELSE IF s[1] < 128 THEN ValidUtf8(Tail(s))
    ELSE IF s[1] = 195 /\ Len(s) >= 2 /\ s[2] = 136 THEN ValidUtf8(Tail(Tail(s)))
    ELSE FALSE

\* CString::new: Err(NulError) when a byte of the string is 0.
CStringNew(s) == IF 0 \in Range(s) THEN None ELSE Some(s)

\* ToCStr::to_c_str for str
ToCStr(s) == CStringNew(s)

RECURSIVE StrLen(_)
\* strlen: the bytes before the first 0 (a C string ends there).
StrLen(s) == IF s = <<>> \/ s[1] = 0 THEN 0 ELSE 1 + StrLen(Tail(s))

\* MString::from_raw_unchecked: takes the C string as it is, without checking
\* that it is UTF-8.
MStringFromRawUnchecked(s) == SubSeq(s, 1, StrLen(s))

\* A 64-bit integer that TLC's 32-bit arithmetic cannot hold: hi * 2^16 + lo
\* with lo in 0..2^16-1.
Wide(n) == [hi |-> n \div 2^16, lo |-> n % 2^16]

WAdd(a, b) ==
    LET s == a.lo + b.lo
    IN  [hi |-> a.hi + b.hi + (s \div 2^16), lo |-> s % 2^16]

WNeg(a) ==
    IF a.lo = 0 THEN [hi |-> 0 - a.hi, lo |-> 0]
    ELSE [hi |-> (0 - a.hi) - 1, lo |-> 2^16 - a.lo]

WSub(a, b) == WAdd(a, WNeg(b))


\* `x as i32` from i64: the low 32 bits, as a signed number.
AsI32(a) ==
    LET h == a.hi % 2^16
    IN  (IF h >= 2^15 THEN h - 2^16 ELSE h) * 2^16 + a.lo

\* Number of seconds between 1970 Jan 1st and 2001 Jan 1st.
TIMESTAMP_OFFSET == 978307200

\* Nanoseconds in a second, microseconds in a second.
NANOS == 10^9

MICROS == 10^6

\* A SystemTime is [secs, nanos]: the instant secs + nanos / 10^9 seconds after
\* UNIX_EPOCH, secs a Wide (negative before the epoch), nanos in 0..10^9-1.
\* A Duration is [secs, nanos] with secs not negative.

\* Duration::new: nanoseconds beyond a second carry into the seconds.
DurationNew(secs, nanos) ==
    [secs |-> WAdd(secs, Wide(nanos \div NANOS)), nanos |-> nanos % NANOS]

\* SystemTime::duration_since(UNIX_EPOCH): Ok(t - epoch) from the epoch on,
\* Err(e) with e.duration() = epoch - t before it.
DurationSinceEpoch(t) ==
    IF t.secs.hi >= 0 THEN [ok |-> TRUE, dur |-> t]
    ELSE [ok |-> FALSE,
          dur |-> IF t.nanos = 0 THEN [secs |-> WNeg(t.secs), nanos |-> 0]
                  ELSE [secs |-> WSub(WNeg(t.secs), Wide(1)), nanos |-> NANOS - t.nanos]]

\* UNIX_EPOCH + dur, UNIX_EPOCH - dur
EpochPlus(dur) == dur

EpochMinus(dur) ==
    IF dur.nanos = 0 THEN [secs |-> WNeg(dur.secs), nanos |-> 0]
    ELSE [secs |-> WSub(WNeg(dur.secs), Wide(1)), nanos |-> NANOS - dur.nanos]

\* SystemTime::to_plist_node, the match: the seconds (floored) and the
\* nanoseconds (not negative) of self since UNIX_EPOCH.
SecNsec(t) ==
    LET d == DurationSinceEpoch(t)
    IN  IF d.ok THEN [sec |-> d.dur.secs, nsec |-> d.dur.nanos]
        ELSE IF d.dur.nanos = 0 THEN [sec |-> WNeg(d.dur.secs), nsec |-> 0]
        ELSE [sec |-> WSub(WNeg(d.dur.secs), Wide(1)), nsec |-> NANOS - d.dur.nanos]

\* SystemTime::to_plist_node, the arguments of plist_new_date:
\* (sec - TIMESTAMP_OFFSET) as i32 and (nsec / 1000) as i32.
DateArgs(t) ==
    LET s == SecNsec(t)
    IN  <<AsI32(WSub(s.sec, Wide(TIMESTAMP_OFFSET))), s.nsec \div 1000>>

\* A faulty from_plist_node: before the epoch, the seconds negated and the
\* microseconds kept (truncation toward zero).
DateToSystemTimeTruncating(sec32, usec) ==
    LET sec == WAdd(Wide(sec32), Wide(TIMESTAMP_OFFSET))
    IN  IF sec.hi >= 0 THEN EpochPlus(DurationNew(sec, usec * 1000))
        ELSE EpochMinus(DurationNew(WNeg(sec), usec * 1000))

\* SystemTime::from_plist_node, after plist_get_date_val
DateToSystemTime(sec32, usec) ==
    LET sec == WAdd(Wide(sec32), Wide(TIMESTAMP_OFFSET))
    IN  IF sec.hi >= 0 THEN EpochPlus(DurationNew(sec, usec * 1000))
        ELSE EpochMinus(DurationNew(WSub(WNeg(sec), Wide(1)), (MICROS - usec) * 1000))

-----------------------------------------------------------------------------
(* The engine's scalar nodes.                                              *)

\* plist_new_array / plist_new_dict
PlistNewArray(h) == PlistNewNode(h, PLIST_ARRAY, <<>>)

PlistNewDict(h) == PlistNewNode(h, PLIST_DICT, <<>>)

\* plist_new_bool(u8) / plist_get_bool_val
PlistNewBool(h, b) == PlistNewNode(h, PLIST_BOOLEAN, <<b>>)

PlistGetBoolVal(h, a) == h[a].val[1]

\* plist_new_uint(u64) / plist_get_uint_val
PlistNewUint(h, u) == PlistNewNode(h, PLIST_UINT, u)

PlistGetUintVal(h, a) == h[a].val

\* plist_new_real(c_double) / plist_get_real_val
PlistNewReal(h, d) == PlistNewNode(h, PLIST_REAL, d)

PlistGetRealVal(h, a) == h[a].val

\* plist_new_string(const char *): the node keeps a copy of the C string.
\* plist_get_string_val: a fresh copy of it.
PlistNewString(h, s) == PlistNewNode(h, PLIST_STRING, SubSeq(s, 1, StrLen(s)))

PlistGetStringVal(h, a) == h[a].val

\* plist_new_data(ptr, length) / plist_get_data_val
PlistNewData(h, bytes) == PlistNewNode(h, PLIST_DATA, bytes)

PlistGetDataVal(h, a) == h[a].val

\* plist_new_date(sec: i32, usec: i32) / plist_get_date_val
PlistNewDate(h, sec, usec) == PlistNewNode(h, PLIST_DATE, <<sec, usec>>)

PlistGetDateVal(h, a) == h[a].val

\* plist_compare_node_value: same type and same value (composites are not
\* compared by content).
PlistCompareNodeValue(h, a, b) ==
    /\ h[a].tag = h[b].tag
    /\ h[a].tag \notin {PLIST_ARRAY, PLIST_DICT}
    /\ h[a].val = h[b].val

-----------------------------------------------------------------------------
(* native.rs: ToPlistNode and FromPlistNode.                               *)

\* A native value is [ty, el, v]: its type, the type of its elements for a
\* Vec or a map ("" otherwise), and the value.  The value of a Vec is the
\* sequence of its elements' values, that of a map the function from its keys
\* to its elements' values.
MapTypes == {"BTreeMap", "HashMap"}

Native(ty, el, v) == [ty |-> ty, el |-> el, v |-> v]

\* The tag each implementation passes to expect_type (or array(), dict()).
NodeTypeOf(ty) ==
    CASE ty = "bool" -> PLIST_BOOLEAN
      [] ty \in IntTypes -> PLIST_UINT
      [] ty \in RealTypes -> PLIST_REAL
      [] ty \in {"String", "MString", "CStr"} -> PLIST_STRING
      [] ty = "Data" -> PLIST_DATA
      [] ty = "SystemTime" -> PLIST_DATE
      [] ty = "Vec" -> PLIST_ARRAY
      [] ty \in MapTypes -> PLIST_DICT

\* What to_plist_node comes to: a handle on a fresh node, or a panic.
Made(n) == [heap |-> n.heap, ptr |-> n.ptr, panic |-> FALSE]

Panic(h) == [heap |-> h, ptr |-> NULL, panic |-> TRUE]

\* recv_data: the engine's buffer copied into a Vec<u8>, then freed.
RecvData(bytes) == bytes

\* to_plist_node of bool, the numbers, CStr, str / String, [u8] / Vec<u8> and
\* SystemTime
ScalarToPlistNode(h, ty, v) ==
    CASE ty = "bool" -> Made(PlistNewBool(h, IF v THEN 1 ELSE 0))
      [] ty \in IntTypes -> Made(PlistNewUint(h, AsU64(ty, v)))
      [] ty \in RealTypes -> Made(PlistNewReal(h, AsCDouble(ty, v)))
      [] ty = "CStr" -> Made(PlistNewString(h, v))
      [] ty = "String" ->
            IF CStringNew(v) = None THEN Panic(h) ELSE Made(PlistNewString(h, v))
      [] ty = "Data" -> Made(PlistNewData(h, v))
      [] ty = "SystemTime" -> Made(PlistNewDate(h, DateArgs(v)[1], DateArgs(v)[2]))

\* to_plist_node of [T] / Vec<T>: collect() into FromIterator<OwnedNode>, which
\* makes an array and pushes the elements' nodes one by one.
VecToPlistNode(h, el, v) ==
    LET result == PlistNewArray(h)
        RECURSIVE Extend(_, _)
        Extend(g, i) ==
            IF i > Len(v) THEN Made([heap |-> g, ptr |-> result.ptr])
            ELSE LET x == ScalarToPlistNode(g, el, v[i])
                 IN  IF x.panic THEN Panic(x.heap)
                     ELSE Extend(PlistArrayAppendItem(OwnedNodeTake(x.heap, x.ptr),
                                                      result.ptr, x.ptr), i + 1)
    IN  Extend(result.heap, 1)

\* A faulty conversion of a map: the last entry is left out.
MapToPlistNodeDroppingLast(h, el, v, ord) ==
    LET result == PlistNewDict(h)
        RECURSIVE Extend(_, _)
        Extend(g, i) ==
            IF i >= Len(ord) THEN Made([heap |-> g, ptr |-> result.ptr])
            ELSE LET x == ScalarToPlistNode(g, el, v[ord[i]])
                 IN  IF x.panic THEN Panic(x.heap)
                     ELSE IF ToCStr(ord[i]) = None THEN Panic(x.heap)
                     ELSE Extend(PlistDictSetItem(OwnedNodeTake(x.heap, x.ptr),
                                                  result.ptr, ord[i], x.ptr), i + 1)
    IN  Extend(result.heap, 1)

\* to_plist_node of BTreeMap<K, V> / HashMap<K, V>: collect() into
\* FromIterator<(K, OwnedNode)>, which makes a dictionary and inserts the
\* entries in the order `ord` the map iterates in; a key that is no C string
\* panics ("invalid key for libplist").
MapToPlistNode(h, el, v, ord) ==
    LET result == PlistNewDict(h)
        RECURSIVE Extend(_, _)
        Extend(g, i) ==
            IF i > Len(ord) THEN Made([heap |-> g, ptr |-> result.ptr])
            ELSE LET x == ScalarToPlistNode(g, el, v[ord[i]])
                 IN  IF x.panic THEN Panic(x.heap)
                     ELSE IF ToCStr(ord[i]) = None THEN Panic(x.heap)
                     ELSE Extend(PlistDictSetItem(OwnedNodeTake(x.heap, x.ptr),
                                                  result.ptr, ord[i], x.ptr), i + 1)
    IN  Extend(result.heap, 1)

ToPlistNode(h, x, ord) ==
    CASE x.ty = "Vec" -> VecToPlistNode(h, x.el, x.v)
      [] x.ty \in MapTypes -> MapToPlistNode(h, x.el, x.v, ord)
      [] OTHER -> ScalarToPlistNode(h, x.ty, x.v)

\* Result<T, PlistError>
OkV(v) == [ok |-> TRUE, err |-> "", tag |-> PLIST_NONE, v |-> v]

ErrV(e) == [ok |-> FALSE, err |-> e.err, tag |-> e.tag, v |-> <<>>]

\* from_plist_node of bool, the numbers, MString, String, Vec<u8>, SystemTime
ScalarFromPlistNode(h, node, ty) ==
    LET e == ExpectType(h, node, NodeTypeOf(ty))
    IN  IF ~e.ok THEN ErrV(e)
        ELSE CASE ty = "bool" -> OkV(PlistGetBoolVal(h, node) # 0)
               [] ty \in IntTypes -> OkV(AsInt(ty, PlistGetUintVal(h, node)))
               [] ty \in RealTypes -> OkV(AsReal(ty, PlistGetRealVal(h, node)))
               [] ty = "MString" -> OkV(MStringFromRawUnchecked(PlistGetStringVal(h, node)))
               [] ty = "String" -> OkV(MStringFromRawUnchecked(PlistGetStringVal(h, node)))
               [] ty = "Data" -> OkV(RecvData(PlistGetDataVal(h, node)))
               [] ty = "SystemTime" ->
                     OkV(DateToSystemTime(PlistGetDateVal(h, node)[1],
                                          PlistGetDateVal(h, node)[2]))

\* A faulty conversion of an array: a child that does not convert is left out.
VecFromPlistNodeSkipping(h, node, el) ==
    LET array == NodeArray(h, node)
        RECURSIVE Each(_, _)
        Each(result, index) ==
            IF PlistArrayGetItem(h, node, index) = NULL THEN OkV(result)
            ELSE LET x == ScalarFromPlistNode(h, PlistArrayGetItem(h, node, index), el)
                 IN  Each(IF x.ok THEN Append(result, x.v) ELSE result, index + 1)
    IN  IF ~array.ok THEN ErrV(array) ELSE Each(<<>>, 0)

\* from_plist_node of Vec<T>: the children in order, the first error returned.
VecFromPlistNode(h, node, el) ==
    LET array == NodeArray(h, node)
        RECURSIVE Each(_, _)
        Each(result, index) ==
            IF PlistArrayGetItem(h, node, index) = NULL THEN OkV(result)
            ELSE LET x == ScalarFromPlistNode(h, PlistArrayGetItem(h, node, index), el)
                 IN  IF ~x.ok THEN x ELSE Each(Append(result, x.v), index + 1)
    IN  IF ~array.ok THEN ErrV(array) ELSE Each(<<>>, 0)

\* map.insert(key, value): a later value replaces an earlier one of the key.
MapInsert(m, k, x) == [j \in DOMAIN m \cup {k} |-> IF j = k THEN x ELSE m[j]]

\* from_plist_node of the maps: the entries in the engine's order, inserted
\* into an empty map, the first error returned.
MapFromPlistNode(h, node, el) ==
    LET d == NodeDict(h, node)
        RECURSIVE Each(_, _)
        Each(result, pos) ==
            LET e == PlistDictNextItem(h, node, pos)
            IN  IF e = 0 THEN OkV(result)
                ELSE LET x == ScalarFromPlistNode(h, h[node].kids[e], el)
                     IN  IF ~x.ok THEN x
                         ELSE Each(MapInsert(result,
                                             MStringFromRawUnchecked(h[node].keys[e]), x.v), e)
    IN  IF ~d.ok THEN ErrV(d) ELSE Each(<<>>, 0)

FromPlistNode(h, node, ty, el) ==
    CASE ty = "Vec" -> VecFromPlistNode(h, node, el)
      [] ty \in MapTypes -> MapFromPlistNode(h, node, el)
      [] OTHER -> ScalarFromPlistNode(h, node, ty)

-----------------------------------------------------------------------------
(* node.rs: equality.                                                      *)

\* A faulty length test: the left dictionary may be the shorter one.
DictLenLe(h, a, b) == PlistDictGetSize(h, a) <= PlistDictGetSize(h, b)

\* impl PartialEq for Node, the dictionaries' first test
DictLenEq(h, a, b) == PlistDictGetSize(h, a) = PlistDictGetSize(h, b)

RECURSIVE NodeEqZipping(_, _, _)
\* A faulty equality: the arrays are compared with zip(), which stops where the
\* shorter one ends.
NodeEqZipping(h, a, b) ==
    LET RECURSIVE IterEq(_)
        IterEq(index) ==
            LET x == NodeTryFromPtr(PlistArrayGetItem(h, a, index))
                y == NodeTryFromPtr(PlistArrayGetItem(h, b, index))
            IN  IF x = None \/ y = None THEN TRUE
                ELSE /\ NodeEqZipping(h, PlistArrayGetItem(h, a, index),
                                      PlistArrayGetItem(h, b, index))
                     /\ IterEq(index + 1)
        RECURSIVE All(_)
        All(pos) ==
            LET e == PlistDictNextItem(h, a, pos)
            IN  IF e = 0 THEN TRUE
                ELSE LET k == MStringFromRawUnchecked(h[a].keys[e])
                         v == h[a].kids[e]
                         got == NodeTryFromPtr(PlistDictGetItem(h, b, k))
                     IN  /\ got # None
                         /\ NodeEqZipping(h, PlistDictGetItem(h, b, k), v)
                         /\ All(e)
    IN  CASE NodeType(h, a) = PLIST_ARRAY /\ NodeType(h, b) = PLIST_ARRAY -> IterEq(0)
          [] NodeType(h, a) = PLIST_DICT /\ NodeType(h, b) = PLIST_DICT ->
                DictLenEq(h, a, b) /\ All(0)
          [] OTHER -> PlistCompareNodeValue(h, a, b)

RECURSIVE NodeEq(_, _, _)
\* impl PartialEq for Node
NodeEq(h, a, b) ==
    LET \* left_array.iter().eq(right_array.iter()): ArrayIter yields get(index)
        \* until it is None; the two must end together.
        RECURSIVE IterEq(_)
        IterEq(index) ==
            LET x == NodeTryFromPtr(PlistArrayGetItem(h, a, index))
                y == NodeTryFromPtr(PlistArrayGetItem(h, b, index))
            IN  IF x = None \/ y = None THEN x = None /\ y = None
                ELSE /\ NodeEq(h, PlistArrayGetItem(h, a, index), PlistArrayGetItem(h, b, index))
                     /\ IterEq(index + 1)
        \* left_dict.iter().all(|(k, v)| right_dict.get(k.as_ref()) == Some(v))
        RECURSIVE All(_)
        All(pos) ==
            LET e == PlistDictNextItem(h, a, pos)
            IN  IF e = 0 THEN TRUE
                ELSE LET k == MStringFromRawUnchecked(h[a].keys[e])
                         v == h[a].kids[e]
                         got == NodeTryFromPtr(PlistDictGetItem(h, b, k))
                     IN  /\ got # None
                         /\ NodeEq(h, PlistDictGetItem(h, b, k), v)
                         /\ All(e)
    IN  CASE NodeType(h, a) = PLIST_ARRAY /\ NodeType(h, b) = PLIST_ARRAY -> IterEq(0)
          [] NodeType(h, a) = PLIST_DICT /\ NodeType(h, b) = PLIST_DICT ->
                DictLenEq(h, a, b) /\ All(0)
          [] OTHER -> PlistCompareNodeValue(h, a, b)

-----------------------------------------------------------------------------
(* References and the loans that the borrow checker tracks.                *)

\* A reference: kind "ref" (a &Node, &mut Node or view), "iter" (a DictIter,
\* which holds the &DictNode it was made from) or "itermut" (a DictMutIter,
\* which holds the &mut DictNode); pos is an iterator's cursor.  `from` is
\* what the reference borrows from: the handle of address a (written -a) or
\* the exclusive reference to node n (written n; there is one at most).
\* Two equal shared references are one element of refs.
Handle(a) == 0 - a

Ref(kind, node, mut, from, pos) ==
    [kind |-> kind, node |-> node, mut |-> mut, from |-> from, pos |-> pos]

\* The references borrowed directly from x (a handle or an exclusive reference).
Loans(x) == {r \in refs : r.from = x}

\* What borrows from the reference r.
LoansOf(r) == IF r.mut THEN Loans(r.node) ELSE {}

RECURSIVE DerivedFrom(_)
DerivedFrom(r) == UNION {{q} \cup DerivedFrom(q) : q \in LoansOf(r)}

\* x may be borrowed shared: no exclusive loan on it is live.
CanShare(x) == \A r \in Loans(x) : ~r.mut

\* x may be used exclusively (mutated, moved, dropped): no loan on it is live.
CanMut(x) == Loans(x) = {}

Readable(r) == r \in refs /\ r.kind = "ref" /\ (r.mut => CanShare(r.node))

Writable(r) == r \in refs /\ r.kind = "ref" /\ r.mut /\ CanMut(r.node)

\* What a shared reference obtained through r borrows from: a shared reference
\* is Copy and its result lives as long as its own loan; an exclusive one is
\* reborrowed.
SharedFrom(r) == IF r.mut THEN r.node ELSE r.from

HasFreshRef == Cardinality(refs) < MaxRefs

\* refs with a reference to the node of an Option added.
Borrow(opt, mut, from) == refs \cup {Ref("ref", n, mut, from, 0) : n \in opt}

\* `last` after an operation whose result the model does not look at, and
\* after one it does: the operation, its argument, whether it returned a
\* value, the address, and the number of nodes it released.
Quiet == [op |-> "", arg |-> "", ok |-> TRUE, ptr |-> NULL, n |-> 0]

Returned(op, arg, ok, ptr, n) == [op |-> op, arg |-> arg, ok |-> ok, ptr |-> ptr, n |-> n]

-----------------------------------------------------------------------------
(* The operations of the safe API, as steps of a program using the crate.  *)
(* An operation through a reference to freed memory is undefined: it is    *)
(* modelled as a read of garbage that changes nothing the model keeps, or  *)
(* as the end of the process (DanglingCrash).                              *)

Indices == 0..(MaxNodes - 1)

Room(n) == Cardinality(FreeAddrs(heap)) >= n

IsLive(node) == heap[node].st = "live"

\* OwnedNode::new_array / new_dict / new_bool
Construct(tag, val) ==
    /\ ~crashed /\ Room(1)
    /\ LET n == PlistNewNode(heap, tag, val)
       IN  /\ heap' = n.heap
           /\ owned' = owned \cup OwnedNodeFromPtr(n.ptr)
    /\ last' = Quiet
    /\ UNCHANGED <<refs, leaked, crashed, native>>

NewArray == Construct(PLIST_ARRAY, <<>>)

NewDict == Construct(PLIST_DICT, <<>>)

NewBool == Construct(PLIST_BOOLEAN, <<1>>)

\* OwnedNode::from_xml / from_binary
FromData(data, xml) ==
    /\ ~crashed
    /\ WellFormed(data) => Room(TreeSize(DocTree(data)))
    /\ LET d == Deserialize(heap, data, xml)
       IN  /\ heap' = d.heap
           /\ owned' = owned \cup d.ret
           /\ last' = Returned(IF xml THEN "from_xml" ELSE "from_binary", data, d.ret # None,
                               IF d.ret = None THEN NULL ELSE CHOOSE a \in d.ret : TRUE, 0)
    /\ UNCHANGED <<refs, leaked, crashed, native>>

FromXml == \E data \in XmlDocs : FromData(data, TRUE)

FromBinary == \E data \in BinDocs : FromData(data, FALSE)

\* Node::to_owned (plist_copy) through a reference, OwnedNode::clone
CopyOf(node) ==
    /\ ~crashed /\ IsLive(node)
    /\ Room(Cardinality(Descendants(heap, node)))
    /\ LET c == PlistCopy(heap, node)
       IN  /\ heap' = c.heap
           /\ owned' = owned \cup OwnedNodeFromPtr(c.ptr)
    /\ last' = Quiet
    /\ UNCHANGED <<refs, leaked, crashed, native>>

ToOwned == \E r \in refs : Readable(r) /\ CopyOf(r.node)

Clone == \E a \in owned : CanShare(Handle(a)) /\ CopyOf(a)

\* An OwnedNode goes out of scope: impl Drop.  Nothing may borrow from it.
DropOwned ==
    \E a \in owned :
        /\ ~crashed /\ CanMut(Handle(a))
        /\ heap' = OwnedNodeDrop(heap, a)
        /\ owned' = owned \ {a}
        /\ last' = Returned("drop", "", TRUE, a, Cardinality(Descendants(heap, a)))
        /\ UNCHANGED <<refs, leaked, crashed, native>>

\* OwnedNode::take called by the program: the raw address is all that is left.
Take ==
    \E a \in owned :
        /\ ~crashed /\ CanMut(Handle(a))
        /\ heap' = OwnedNodeTake(heap, a)
        /\ owned' = owned \ {a}
        /\ leaked' = leaked \cup {a}
        /\ last' = Quiet
        /\ UNCHANGED <<refs, crashed, native>>

\* A step that only adds or ends references.
RefStep(r) ==
    /\ ~crashed
    /\ refs' = r
    /\ last' = Quiet
    /\ UNCHANGED <<heap, owned, leaked, crashed, native>>

\* impl Deref / DerefMut for OwnedNode (also Borrow, AsRef, ...)
Deref ==
    \E a \in owned :
        HasFreshRef /\ CanShare(Handle(a)) /\ RefStep(Borrow(Some(a), FALSE, Handle(a)))

DerefMut ==
    \E a \in owned :
        HasFreshRef /\ CanMut(Handle(a)) /\ RefStep(Borrow(Some(a), TRUE, Handle(a)))

\* &*r on an exclusive reference
Reborrow ==
    \E r \in refs :
        /\ HasFreshRef /\ Readable(r) /\ r.mut
        /\ RefStep(Borrow(Some(r.node), FALSE, r.node))

\* Node::parent(&self) -> Option<&Node>
Parent ==
    \E r \in refs :
        /\ HasFreshRef /\ Readable(r) /\ IsLive(r.node)
        /\ RefStep(Borrow(NodeTryFromPtr(PlistGetParent(heap, r.node)), FALSE, SharedFrom(r)))

\* ArrayNode::get(&self, index) -> Option<&Node>, on the view node.array()
ArrayGet ==
    \E r \in refs, n \in Indices :
        /\ HasFreshRef /\ Readable(r) /\ IsLive(r.node) /\ NodeArray(heap, r.node).ok
        /\ RefStep(Borrow(NodeTryFromPtr(PlistArrayGetItem(heap, r.node, n)), FALSE,
                          SharedFrom(r)))

\* ArrayNode::get_mut(&mut self, index) -> Option<&mut Node>
ArrayGetMut ==
    \E r \in refs, n \in Indices :
        /\ HasFreshRef /\ Writable(r) /\ IsLive(r.node) /\ NodeArray(heap, r.node).ok
        /\ RefStep(Borrow(NodeTryFromPtr(PlistArrayGetItem(heap, r.node, n)), TRUE, r.node))

\* DictNode::get(&self, key) -> Option<&Node>, on the view node.dict()
DictGet ==
    \E r \in refs, k \in Keys :
        /\ HasFreshRef /\ Readable(r) /\ IsLive(r.node) /\ NodeDict(heap, r.node).ok
        /\ RefStep(Borrow(NodeTryFromPtr(PlistDictGetItem(heap, r.node, k)), FALSE,
                          SharedFrom(r)))

\* DictNode::get_mut(&mut self, key) -> Option<&mut Node>
DictGetMut ==
    \E r \in refs, k \in Keys :
        /\ HasFreshRef /\ Writable(r) /\ IsLive(r.node) /\ NodeDict(heap, r.node).ok
        /\ RefStep(Borrow(NodeTryFromPtr(PlistDictGetItem(heap, r.node, k)), TRUE, r.node))

\* The end of a reference's lifetime, and with it of all that borrows from it.
Release == \E r \in refs : RefStep(refs \ ({r} \cup DerivedFrom(r)))

\* A faulty mutation: the handles passed are not consumed (item.as_ptr() in the
\* place of item.take()).
MutateKeepingHandles(r, items, inBounds, h) ==
    /\ ~crashed /\ Writable(r) /\ IsLive(r.node)
    /\ owned' = owned
    /\ IF inBounds THEN heap' = h /\ crashed' = crashed
       ELSE heap' = heap /\ crashed' = TRUE
    /\ last' = Quiet
    /\ UNCHANGED <<refs, leaked, native>>

\* A mutation through the exclusive reference r that moves the handles `items`
\* into the engine.  The arguments are evaluated first (item.take()), then the
\* engine is called: with the index or key in bounds it returns the heap h,
\* otherwise it aborts the process.
Mutate(r, items, inBounds, h) ==
    /\ ~crashed /\ Writable(r) /\ IsLive(r.node)
    /\ owned' = owned \ items
    /\ IF inBounds THEN heap' = h /\ crashed' = crashed
       ELSE heap' = heap /\ crashed' = TRUE
    /\ last' = Quiet
    /\ UNCHANGED <<refs, leaked, native>>

Movable(b) == b \in owned /\ CanMut(Handle(b))

\* ArrayNode::push
ArrayPush ==
    \E r \in refs, b \in owned :
        /\ IsLive(r.node) /\ NodeArray(heap, r.node).ok /\ Movable(b)
        /\ Mutate(r, {b}, TRUE, PlistArrayAppendItem(OwnedNodeTake(heap, b), r.node, b))

\* ArrayNode::set
ArraySet ==
    \E r \in refs, n \in Indices, b \in owned :
        /\ IsLive(r.node) /\ NodeArray(heap, r.node).ok /\ Movable(b)
        /\ LET ok == n < PlistArrayGetSize(heap, r.node)
           IN  Mutate(r, {b}, ok,
                      IF ok THEN PlistArraySetItem(OwnedNodeTake(heap, b), r.node, b, n)
                      ELSE heap)

\* ArrayNode::insert
ArrayInsert ==
    \E r \in refs, n \in Indices, b \in owned :
        /\ IsLive(r.node) /\ NodeArray(heap, r.node).ok /\ Movable(b)
        /\ LET ok == n <= PlistArrayGetSize(heap, r.node)
           IN  Mutate(r, {b}, ok,
                      IF ok THEN PlistArrayInsertItem(OwnedNodeTake(heap, b), r.node, b, n)
                      ELSE heap)

\* ArrayNode::remove
ArrayRemove ==
    \E r \in refs, n \in Indices :
        /\ IsLive(r.node) /\ NodeArray(heap, r.node).ok
        /\ LET ok == n < PlistArrayGetSize(heap, r.node)
           IN  Mutate(r, {}, ok, IF ok THEN PlistArrayRemoveItem(heap, r.node, n) ELSE heap)

\* DictNode::insert
DictInsert ==
    \E r \in refs, k \in Keys, b \in owned :
        /\ IsLive(r.node) /\ NodeDict(heap, r.node).ok /\ Movable(b)
        /\ Mutate(r, {b}, TRUE, PlistDictSetItem(OwnedNodeTake(heap, b), r.node, k, b))

\* DictNode::remove
DictRemove ==
    \E r \in refs, k \in Keys :
        /\ IsLive(r.node) /\ NodeDict(heap, r.node).ok
        /\ LET ok == PlistDictGetItem(heap, r.node, k) # NULL
           IN  Mutate(r, {}, ok, IF ok THEN PlistDictRemoveItem(heap, r.node, k) ELSE heap)

\* DictNode::iter / IntoIterator for &DictNode: the iterator takes the shared
\* reference and opens a cursor.
DictIter ==
    \E r \in refs :
        /\ Readable(r) /\ ~r.mut /\ IsLive(r.node) /\ NodeDict(heap, r.node).ok
        /\ RefStep((refs \ {r}) \cup {Ref("iter", r.node, FALSE, r.from, 0)})

\* DictNode::iter_mut / IntoIterator for &mut DictNode
DictIterMut ==
    \E r \in refs :
        /\ Writable(r) /\ IsLive(r.node) /\ NodeDict(heap, r.node).ok
        /\ RefStep((refs \ {r}) \cup {Ref("itermut", r.node, TRUE, r.from, 0)})

\* Iterator::next for DictIter and DictMutIter.  The item has the lifetime 'a
\* of the dictionary reference the iterator was given, not that of the borrow
\* of the iterator: it borrows from what that reference borrowed from.
DictNext ==
    \E r \in refs :
        /\ HasFreshRef /\ r.kind \in {"iter", "itermut"} /\ IsLive(r.node)
        /\ LET e == PlistDictNextItem(heap, r.node, r.pos)
               val == IF e = 0 THEN NULL ELSE heap[r.node].kids[e]
           IN  RefStep(IF e = 0 THEN refs
                       ELSE (refs \ {r}) \cup {[r EXCEPT !.pos = e]}
                                \cup {Ref("ref", n, r.mut, r.from, 0) : n \in NodeTryFromPtr(val)})

\* A read through a reference to freed memory may end the process.
DanglingCrash ==
    \E r \in refs :
        /\ ~crashed /\ ~IsLive(r.node)
        /\ crashed' = TRUE
        /\ last' = Quiet
        /\ UNCHANGED <<heap, owned, refs, leaked, native>>

Init ==
    /\ heap = EmptyHeap(MaxNodes)
    /\ owned = {}
    /\ refs = {}
    /\ leaked = {}
    /\ crashed = FALSE
    /\ last = Quiet
    /\ original = <<>>
    /\ res = <<>>

Next ==
    \/ NewArray \/ NewDict \/ NewBool \/ FromXml \/ FromBinary
    \/ ToOwned \/ Clone \/ DropOwned \/ Take
    \/ Deref \/ DerefMut \/ Reborrow \/ Parent
    \/ ArrayGet \/ ArrayGetMut \/ DictGet \/ DictGetMut \/ Release
    \/ ArrayPush \/ ArraySet \/ ArrayInsert \/ ArrayRemove \/ DictInsert \/ DictRemove
    \/ DictIter \/ DictIterMut \/ DictNext

Spec == Init /\ [][Next]_vars

\* A program that parses one document and then works on it in place: it
\* navigates, iterates, removes, and lets go of the handle.  Memory holds the
\* document's nodes and nothing is allocated afterwards.
InitDoc ==
    \E data \in {d \in XmlDocs : WellFormed(d)} :
        LET d == Deserialize(EmptyHeap(TreeSize(DocTree(data))), data, TRUE)
        IN  /\ heap = d.heap
            /\ owned = d.ret
            /\ refs = {}
            /\ leaked = {}
            /\ crashed = FALSE
            /\ last = Quiet
            /\ original = <<>>
            /\ res = <<>>

NextDoc ==
    \/ DropOwned \/ Take
    \/ Deref \/ DerefMut \/ Reborrow \/ Parent
    \/ ArrayGet \/ ArrayGetMut \/ DictGet \/ DictGetMut \/ Release
    \/ ArrayRemove \/ DictRemove
    \/ DictIter \/ DictIterMut \/ DictNext
    \/ DanglingCrash

SpecDoc == InitDoc /\ [][NextDoc]_vars

-----------------------------------------------------------------------------
(* The round trip of generate_roundtrip_test, for a bounded set of values. *)

\* The longest string, byte vector, Vec and map of the model.
MaxLen == 2

\* The bytes of the model: NUL, "a", a UTF-8 continuation byte, a UTF-8 lead.
Bytes == {0, 97, 136, 195}

RECURSIVE SeqsUpTo(_, _)
\* The sequences of at most n elements of S.
SeqsUpTo(S, n) ==
    IF n = 0 THEN {<<>>}
    ELSE LET shorter == SeqsUpTo(S, n - 1)
         IN  shorter \cup {Append(s, x) : s \in shorter, x \in S}

ByteSeqs == SeqsUpTo(Bytes, MaxLen)

\* The limbs integers are made of: zero, the sign bit, all ones.
LimbVals == {0, 2^15, 2^16 - 1}

IntVals(ty) == {v \in SeqsUpTo(LimbVals, Limbs(ty)) : Len(v) = Limbs(ty)}

\* 0, 8.625, -1, 2^24, 2^24 + 1 (an f64 that is no f32), +infinity, NaN
F32Vals == {<<0, 0, 0>>, <<0, 69, -3>>, <<0, -1, 0>>, <<0, 1, 24>>, <<1, 0, 0>>, NaN}

F64Vals == F32Vals \cup {<<0, 2^24 + 1, 0>>}

\* 2^31 seconds.
TwoTo31 == [hi |-> 2^15, lo |-> 0]

\* Instants around the epoch, around 2001 and around the two ends of what an
\* i32 of seconds since 2001 can hold; whole seconds, whole microseconds and
\* odd nanoseconds.
TimeSecs ==
    {Wide(0), Wide(-1), Wide(-123456790), Wide(1234567890), Wide(TIMESTAMP_OFFSET),
     WSub(Wide(TIMESTAMP_OFFSET), TwoTo31),
     WSub(WSub(Wide(TIMESTAMP_OFFSET), TwoTo31), Wide(1)),
     WAdd(Wide(TIMESTAMP_OFFSET), WSub(TwoTo31, Wide(1))),
     WAdd(Wide(TIMESTAMP_OFFSET), TwoTo31)}

TimeNanos == {0, 1000, 999999000, 1500, 999999999}

SystemTimes == {[secs |-> s, nanos |-> n] : s \in TimeSecs, n \in TimeNanos}

ScalarVals(ty) ==
    CASE ty = "bool" -> BOOLEAN
      [] ty \in IntTypes -> IntVals(ty)
      [] ty = "f32" -> F32Vals
      [] ty = "f64" -> F64Vals
      [] ty = "String" -> {s \in ByteSeqs : ValidUtf8(s)}
      [] ty = "CStr" -> {s \in ByteSeqs : 0 \notin Range(s)}
      [] ty = "Data" -> ByteSeqs
      [] ty = "SystemTime" -> SystemTimes

ScalarTypes == {"bool", "String", "CStr", "Data", "SystemTime"} \cup IntTypes \cup RealTypes

\* The element types of the Vecs and maps of the model.
ElementTypes == {"bool", "u16", "f64", "String"}

\* The keys of the maps of the model: "", "a", "\0", "\u{c8}".
MapKeys == {<<>>, <<97>>, <<0>>, <<195, 136>>}

\* The element types of the maps of the model.
MapElementTypes == {"bool", "String"}

Scalars(ty) == {Native(ty, "", v) : v \in ScalarVals(ty)}

Vecs(el) == {Native("Vec", el, v) : v \in SeqsUpTo(ScalarVals(el), MaxLen)}

Maps(ty, el) ==
    {Native(ty, el, v) :
        v \in UNION {[ks -> ScalarVals(el)] :
                        ks \in {s \in SUBSET MapKeys : Cardinality(s) <= MaxLen}}}

RECURSIVE LexLess(_, _)
\* The order of str (and of BTreeMap's keys): bytewise.
LexLess(s, t) ==
    IF t = <<>> THEN FALSE
    ELSE IF s = <<>> THEN TRUE
    ELSE s[1] < t[1] \/ (s[1] = t[1] /\ LexLess(Tail(s), Tail(t)))

\* The orders in which iter() may go through a native value's entries: the
\* keys' order for a BTreeMap, any order for a HashMap.
IterOrders(x) ==
    IF x.ty \notin MapTypes THEN {<<>>}
    ELSE LET all == {o \in [1..Cardinality(DOMAIN x.v) -> DOMAIN x.v] : Range(o) = DOMAIN x.v}
         IN  IF x.ty = "HashMap" THEN all
             ELSE {o \in all : \A i, j \in DOMAIN o : i < j => LexLess(o[i], o[j])}

\* The conversion has not started.
Start ==
    [stage |-> "start", n |-> NULL, ty |-> "", el |-> "", b |-> OkV(<<>>), m |-> NULL,
     eq |-> FALSE]

InitNative ==
    /\ \/ \E ty \in ScalarTypes : original \in Scalars(ty)
       \/ \E el \in ElementTypes : original \in Vecs(el)
       \/ \E ty \in MapTypes, el \in MapElementTypes : original \in Maps(ty, el)
    /\ heap = EmptyHeap(2 * (MaxLen + 1))
    /\ owned = {}
    /\ refs = {}
    /\ leaked = {}
    /\ crashed = FALSE
    /\ last = Quiet
    /\ res = Start

\* let n = original.to_plist_node();
ToNode ==
    /\ ~crashed /\ res.stage = "start"
    /\ \E ord \in IterOrders(original) :
        LET r == ToPlistNode(heap, original, ord)
        IN  /\ heap' = r.heap
            /\ crashed' = r.panic
            /\ owned' = IF r.panic THEN owned ELSE owned \cup OwnedNodeFromPtr(r.ptr)
            /\ res' = [res EXCEPT !.stage = IF r.panic THEN "panic" ELSE "n", !.n = r.ptr]
    /\ UNCHANGED <<refs, leaked, last, original>>

\* The types a node is converted to: the type it came from, and any other.
Targets ==
    {<<ty, "">> : ty \in (ScalarTypes \ {"CStr"}) \cup {"MString"}}
        \cup {<<"Vec", el>> : el \in ElementTypes}
        \cup {<<ty, el>> : ty \in MapTypes, el \in MapElementTypes}

\* let b: $ty = FromPlistNode::from_plist_node(&n)
FromNode ==
    /\ ~crashed /\ res.stage = "n"
    /\ \E t \in Targets :
        res' = [res EXCEPT !.stage = "b", !.ty = t[1], !.el = t[2],
                           !.b = FromPlistNode(heap, res.n, t[1], t[2])]
    /\ UNCHANGED <<heap, owned, refs, leaked, crashed, last, original>>

\* n.expect_type(tag), n.array(), n.dict()
Expect ==
    /\ ~crashed /\ res.stage = "n"
    /\ \E tag \in plist_type :
        res' = [res EXCEPT !.stage = "expect", !.ty = tag,
                           !.b = LET e == ExpectType(heap, res.n, tag)
                                 IN  IF e.ok THEN OkV(<<>>) ELSE ErrV(e)]
    /\ UNCHANGED <<heap, owned, refs, leaked, crashed, last, original>>

\* let m = b.to_plist_node(); n == m
ToNodeAgain ==
    /\ ~crashed /\ res.stage = "b" /\ res.b.ok
    /\ res.ty = original.ty /\ res.el = original.el
    /\ \E ord \in IterOrders(Native(res.ty, res.el, res.b.v)) :
        LET r == ToPlistNode(heap, Native(res.ty, res.el, res.b.v), ord)
        IN  /\ heap' = r.heap
            /\ crashed' = r.panic
            /\ owned' = IF r.panic THEN owned ELSE owned \cup OwnedNodeFromPtr(r.ptr)
            /\ res' = [res EXCEPT !.stage = IF r.panic THEN "panic" ELSE "m", !.m = r.ptr,
                                  !.eq = ~r.panic /\ NodeEq(r.heap, res.n, r.ptr)]
    /\ UNCHANGED <<refs, leaked, last, original>>

NextNative == ToNode \/ FromNode \/ Expect \/ ToNodeAgain

SpecNative == InitNative /\ [][NextNative]_vars

-----------------------------------------------------------------------------
(* Two documents compared.                                                 *)

\* The trees of the model: booleans, arrays and dictionaries of up to three
\* nodes, with the same entries in both orders.
EqTrees ==
    {TBool(TRUE), TBool(FALSE), TArray(<<>>), TDict(<<>>, <<>>),
     TArray(<<TBool(TRUE)>>), TArray(<<TBool(TRUE), TBool(FALSE)>>),
     TArray(<<TBool(FALSE), TBool(TRUE)>>), TArray(<<TArray(<<>>)>>),
     TArray(<<TDict(<<>>, <<>>)>>),
     TDict(<<KeyA>>, <<TBool(TRUE)>>), TDict(<<KeyB>>, <<TBool(TRUE)>>),
     TDict(<<KeyA, KeyB>>, <<TBool(TRUE), TBool(FALSE)>>),
     TDict(<<KeyB, KeyA>>, <<TBool(FALSE), TBool(TRUE)>>),
     TDict(<<KeyA, KeyB>>, <<TBool(FALSE), TBool(TRUE)>>),
     TDict(<<KeyA>>, <<TArray(<<TBool(TRUE)>>)>>)}

InitEq ==
    \E t \in EqTrees, u \in EqTrees :
        LET l == BuildTree(EmptyHeap(TreeSize(t) + TreeSize(u)), t)
            r == BuildTree(l.heap, u)
        IN  /\ heap = r.heap
            /\ owned = OwnedNodeFromPtr(l.ptr) \cup OwnedNodeFromPtr(r.ptr)
            /\ original = <<t, u>>
            /\ refs = {}
            /\ leaked = {}
            /\ crashed = FALSE
            /\ last = Quiet
            /\ res = [stage |-> "start", l |-> NULL, r |-> NULL, eq |-> FALSE]

\* left == right, for two nodes of the documents
Eq ==
    \E a \in Live(heap), b \in Live(heap) :
        /\ res' = [stage |-> "eq", l |-> a, r |-> b, eq |-> NodeEq(heap, a, b)]
        /\ UNCHANGED <<heap, owned, refs, leaked, crashed, last, original>>

NextEq == Eq

SpecEq == InitEq /\ [][NextEq]_vars

\* Three documents, any two nodes of which are compared.
InitEq3 ==
    \E t \in EqTrees, u \in EqTrees, w \in EqTrees :
        LET l == BuildTree(EmptyHeap(TreeSize(t) + TreeSize(u) + TreeSize(w)), t)
            r == BuildTree(l.heap, u)
            o == BuildTree(r.heap, w)
        IN  /\ heap = o.heap
            /\ owned = OwnedNodeFromPtr(l.ptr) \cup OwnedNodeFromPtr(r.ptr)
                            \cup OwnedNodeFromPtr(o.ptr)
            /\ original = <<t, u, w>>
            /\ refs = {}
            /\ leaked = {}
            /\ crashed = FALSE
            /\ last = Quiet
            /\ res = [stage |-> "start", l |-> NULL, r |-> NULL, eq |-> FALSE]

SpecEq3 == InitEq3 /\ [][NextEq]_vars

-----------------------------------------------------------------------------
(* node.rs: the methods of the array and dictionary views, called on the   *)
(* nodes of a forest of documents.                                         *)

\* A usize is 64 bits wide: four limbs, as the integers above.  USize(n) is
\* the usize of value n, Above32(n) that of value 2^32 + n.
USize(n) == <<n % 2^16, n \div 2^16, 0, 0>>

Above32(n) == <<n % 2^16, n \div 2^16, 1, 0>>

\* The value of a u32 passed to the engine.
U32(l) == l[1] + l[2] * 2^16

\* `index as u32`
IndexAsU32(index) == U32(AsInt("u32", index))

\* ArrayNode::len / DictNode::len: `size as usize`
ArrayNodeLen(h, a) == USize(PlistArrayGetSize(h, a))

DictNodeLen(h, a) == USize(PlistDictGetSize(h, a))

\* ArrayNode::get / get_mut
ArrayNodeGet(h, a, index) == NodeTryFromPtr(PlistArrayGetItem(h, a, IndexAsU32(index)))

\* What a mutation comes to: the engine's memory after it, or a crash.
Done(h) == [heap |-> h, crashed |-> FALSE]

Crash(h) == [heap |-> h, crashed |-> TRUE]

\* A faulty set: the item is inserted before the index and the old child stays.
ArrayNodeSetInserting(h, a, index, item) ==
    IF IndexAsU32(index) < PlistArrayGetSize(h, a)
    THEN Done(PlistArrayInsertItem(OwnedNodeTake(h, item), a, item, IndexAsU32(index)))
    ELSE Crash(OwnedNodeTake(h, item))

\* ArrayNode::set: "Crashes if the index is out of bounds."
ArrayNodeSet(h, a, index, item) ==
    IF IndexAsU32(index) < PlistArrayGetSize(h, a)
    THEN Done(PlistArraySetItem(OwnedNodeTake(h, item), a, item, IndexAsU32(index)))
    ELSE Crash(OwnedNodeTake(h, item))

\* ArrayNode::push
ArrayNodePush(h, a, item) == Done(PlistArrayAppendItem(OwnedNodeTake(h, item), a, item))

\* ArrayNode::insert: "Crashes if the index is out of bounds."
ArrayNodeInsert(h, a, index, item) ==
    IF IndexAsU32(index) <= PlistArrayGetSize(h, a)
    THEN Done(PlistArrayInsertItem(OwnedNodeTake(h, item), a, item, IndexAsU32(index)))
    ELSE Crash(OwnedNodeTake(h, item))

\* ArrayNode::remove: "Crashes if the index is out of bounds."
ArrayNodeRemove(h, a, index) ==
    IF IndexAsU32(index) < PlistArrayGetSize(h, a)
    THEN Done(PlistArrayRemoveItem(h, a, IndexAsU32(index)))
    ELSE Crash(h)

\* DictNode::get / get_mut
DictNodeGet(h, a, key) == NodeTryFromPtr(PlistDictGetItem(h, a, key))

\* A faulty insert: the value of an existing key is kept.
DictNodeInsertKeeping(h, a, key, value) ==
    IF PlistDictGetItem(h, a, key) = NULL
    THEN Done(PlistDictSetItem(OwnedNodeTake(h, value), a, key, value))
    ELSE Done(OwnedNodeDrop(h, value))

\* DictNode::insert
DictNodeInsert(h, a, key, value) ==
    Done(PlistDictSetItem(OwnedNodeTake(h, value), a, key, value))

\* DictNode::remove: "Crashes if the entry did not exist."
DictNodeRemove(h, a, key) ==
    IF PlistDictGetItem(h, a, key) # NULL
    THEN Done(PlistDictRemoveItem(h, a, key))
    ELSE Crash(h)

\* Node::parent
NodeParent(h, a) == NodeTryFromPtr(PlistGetParent(h, a))

\* A faulty get_index_in_array: the parent's type is not looked at.
NodeGetIndexInArrayOfAnyParent(h, a) ==
    IF NodeParent(h, a) # None THEN Some(USize(PlistArrayGetItemIndex(h, a))) ELSE None

\* Node::get_index_in_array
NodeGetIndexInArray(h, a) ==
    IF \E p \in NodeParent(h, a) : NodeType(h, p) = PLIST_ARRAY
    THEN Some(USize(PlistArrayGetItemIndex(h, a)))
    ELSE None

\* Node::get_key_in_dict
NodeGetKeyInDict(h, a) ==
    LET key == PlistDictGetItemKey(h, a)
    IN  IF key = NoKey THEN None ELSE Some(MStringFromRawUnchecked(key))

\* impl ToOwned for Node / impl Clone for OwnedNode
NodeToOwned(h, a) ==
    LET c == PlistCopy(h, a)
    IN  [heap |-> c.heap, ret |-> OwnedNodeFromPtr(c.ptr)]

\* Scalar documents besides the booleans.
TUint(n) == [tag |-> PLIST_UINT, val |-> USize(n), kids |-> <<>>, keys |-> <<>>]

TReal(d) == [tag |-> PLIST_REAL, val |-> d, kids |-> <<>>, keys |-> <<>>]

TString(s) == [tag |-> PLIST_STRING, val |-> s, kids |-> <<>>, keys |-> <<>>]

\* The forests of the model.  The first is that of array_tests::test_mutation:
\* [true, false, true, 49] with the items "foo" and -2.5.
Forests ==
    {<<TArray(<<TBool(TRUE), TBool(FALSE), TBool(TRUE), TUint(49)>>),
       TString(<<102, 111, 111>>), TReal(<<0, -5, -1>>)>>,
     <<TDict(<<KeyA, KeyB>>, <<TBool(TRUE), TArray(<<TBool(TRUE), TUint(1)>>)>>),
       TBool(FALSE), TDict(<<>>, <<>>)>>,
     <<TArray(<<TUint(1), TUint(2), TUint(3)>>),
       TArray(<<TUint(1), TBool(TRUE), TString(<<97>>)>>),
       TDict(<<KeyA, KeyB>>, <<TUint(1), TBool(TRUE)>>)>>}

RECURSIVE ForestSize(_)
ForestSize(f) == IF f = <<>> THEN 0 ELSE TreeSize(Head(f)) + ForestSize(Tail(f))

RECURSIVE BuildForest(_, _)
\* The documents of a forest, each under its own handle.
BuildForest(h, f) ==
    IF f = <<>> THEN [heap |-> h, roots |-> {}]
    ELSE LET t == BuildTree(h, Head(f))
             rest == BuildForest(t.heap, Tail(f))
         IN  [heap |-> rest.heap, roots |-> OwnedNodeFromPtr(t.ptr) \cup rest.roots]

\* Memory left for copies.
Spare == 3

\* The number of calls the program makes.
MaxCalls == 3

\* The indices the program passes: in bounds, one past the end, and beyond
\* the range of a u32.
TreeIndices == {USize(0), USize(1), USize(3), USize(4), Above32(1)}

RECURSIVE RootOf(_, _)
\* The root of the tree a node is in.
RootOf(h, a) == IF h[a].parent = NULL THEN a ELSE RootOf(h, h[a].parent)

\* The last call: the method, the node it was called on, its arguments, what
\* it returned, and the engine's memory before it.
NoType == <<"", "">>

Called(op, node, index, key, item, ty, ret) ==
    [op |-> op, node |-> node, index |-> index, key |-> key, item |-> item, ty |-> ty,
     ret |-> ret, before |-> heap]

InitTree ==
    \E f \in Forests :
        LET b == BuildForest(EmptyHeap(ForestSize(f) + Spare), f)
        IN  /\ heap = b.heap
            /\ owned = b.roots
            /\ refs = {}
            /\ leaked = {}
            /\ crashed = FALSE
            /\ last = Quiet
            /\ original = [forest |-> f, calls |-> 0]
            /\ res = [op |-> "", node |-> NULL, index |-> USize(0), key |-> NoKey,
                      item |-> NULL, ty |-> NoType, ret |-> None, before |-> b.heap]

\* One more call is made, unless the process is gone.
Counted ==
    /\ ~crashed /\ original.calls < MaxCalls
    /\ original' = [original EXCEPT !.calls = @ + 1]

\* A call that reads.
Query(c) ==
    /\ Counted
    /\ res' = c
    /\ UNCHANGED <<heap, owned, refs, leaked, crashed, last>>

\* A call that changes the engine's memory and moves the handles `items` in.
Change(r, items, c) ==
    /\ Counted
    /\ heap' = r.heap
    /\ crashed' = r.crashed
    /\ owned' = owned \ items
    /\ res' = c
    /\ UNCHANGED <<refs, leaked, last>>

\* The arrays and dictionaries the program has a view of.
Arrays == {a \in Live(heap) : NodeArray(heap, a).ok}

Dicts == {a \in Live(heap) : NodeDict(heap, a).ok}

\* The handles that can be moved into the tree of a: any but its own.
Items(a) == owned \ {RootOf(heap, a)}

GetCall ==
    \E a \in Arrays, index \in TreeIndices :
        Query(Called("get", a, index, NoKey, NULL, NoType, ArrayNodeGet(heap, a, index)))

SetCall ==
    \E a \in Arrays, index \in TreeIndices :
      \E item \in Items(a) :
        Change(ArrayNodeSet(heap, a, index, item), {item},
               Called("set", a, index, NoKey, item, NoType, None))

PushCall ==
    \E a \in Arrays :
      \E item \in Items(a) :
        Change(ArrayNodePush(heap, a, item), {item},
               Called("push", a, ArrayNodeLen(heap, a), NoKey, item, NoType, None))

InsertCall ==
    \E a \in Arrays, index \in TreeIndices :
      \E item \in Items(a) :
        Change(ArrayNodeInsert(heap, a, index, item), {item},
               Called("insert", a, index, NoKey, item, NoType, None))

RemoveCall ==
    \E a \in Arrays, index \in TreeIndices :
        Change(ArrayNodeRemove(heap, a, index), {},
               Called("remove", a, index, NoKey, NULL, NoType, None))

DictGetCall ==
    \E a \in Dicts, key \in Keys :
        Query(Called("dict_get", a, USize(0), key, NULL, NoType, DictNodeGet(heap, a, key)))

DictInsertCall ==
    \E a \in Dicts, key \in Keys :
      \E item \in Items(a) :
        Change(DictNodeInsert(heap, a, key, item), {item},
               Called("dict_insert", a, USize(0), key, item, NoType, None))

DictRemoveCall ==
    \E a \in Dicts, key \in Keys :
        Change(DictNodeRemove(heap, a, key), {},
               Called("dict_remove", a, USize(0), key, NULL, NoType, None))

ParentCall ==
    \E a \in Live(heap) :
        Query(Called("parent", a, USize(0), NoKey, NULL, NoType, NodeParent(heap, a)))

IndexCall ==
    \E a \in Live(heap) :
        Query(Called("get_index_in_array", a, USize(0), NoKey, NULL, NoType,
                     NodeGetIndexInArray(heap, a)))

KeyCall ==
    \E a \in Live(heap) :
        Query(Called("get_key_in_dict", a, USize(0), NoKey, NULL, NoType,
                     NodeGetKeyInDict(heap, a)))

\* node.to_owned() on any node, handle.clone() on a root
ToOwnedCall ==
    \E a \in Live(heap) :
        /\ Room(Cardinality(Descendants(heap, a)))
        /\ LET c == NodeToOwned(heap, a)
           IN  /\ Counted
               /\ heap' = c.heap
               /\ owned' = owned \cup c.ret
               /\ res' = Called("to_owned", a, USize(0), NoKey, NULL, NoType, c.ret)
        /\ UNCHANGED <<refs, leaked, crashed, last>>

\* A handle goes out of scope.
DropCall ==
    \E a \in owned :
        /\ Counted
        /\ heap' = OwnedNodeDrop(heap, a)
        /\ owned' = owned \ {a}
        /\ res' = Called("drop", a, USize(0), NoKey, NULL, NoType, None)
        /\ UNCHANGED <<refs, leaked, crashed, last>>

\* The types a node of the forest is converted to.
TreeTargets ==
    {<<"Vec", "u16">>, <<"Vec", "bool">>, <<"BTreeMap", "u16">>, <<"HashMap", "bool">>}

\* T::from_plist_node(&node) for a Vec or a map
ConvertCall ==
    \E a \in Live(heap), t \in TreeTargets :
        Query(Called("from_plist_node", a, USize(0), NoKey, NULL, t,
                     FromPlistNode(heap, a, t[1], t[2])))

NextTree ==
    \/ GetCall \/ SetCall \/ PushCall \/ InsertCall \/ RemoveCall
    \/ DictGetCall \/ DictInsertCall \/ DictRemoveCall
    \/ ParentCall \/ IndexCall \/ KeyCall
    \/ ToOwnedCall \/ DropCall \/ ConvertCall

SpecTree == InitTree /\ [][NextTree]_vars

-----------------------------------------------------------------------------
(* node.rs: iteration.  A dictionary iterator owns a cursor, which the     *)
(* engine allocates (plist_dict_new_iter) and advances                     *)
(* (plist_dict_next_item) and which the iterator's destructor frees; an    *)
(* array iterator is an index.                                             *)

\* The cursors the engine can allocate, the iterators alive at a time, and
\* the calls of next() made on an array iterator after its end.
MaxCursors == 3

MaxIters == 2

MaxPastEnd == 1

\* The engine's cursor memory: address -> cursor.  A cursor is the number of
\* entries it has passed.  A freed address is not handed out again.
NoCursors ==
    [c \in 1..MaxCursors |-> [st |-> "unused", pos |-> 0, frees |-> 0]]

\* plist_dict_new_iter: a fresh cursor before the first entry; the output stays
\* null when none can be allocated.
PlistDictNewIter(cs) ==
    LET free == {c \in DOMAIN cs : cs[c].st = "unused"}
        raw == IF free = {} THEN NULL ELSE CHOOSE c \in free : \A b \in free : c <= b
    IN  IF raw = NULL THEN [cursors |-> cs, raw |-> NULL]
        ELSE [cursors |-> [cs EXCEPT ![raw] = [st |-> "open", pos |-> 0, frees |-> 0]],
              raw |-> raw]

\* free(raw): nothing for the null address
Free(cs, raw) ==
    IF raw = NULL THEN cs
    ELSE [cs EXCEPT ![raw] = [st |-> "freed", pos |-> 0, frees |-> @.frees + 1]]

\* OwnedDictIter::new
OwnedDictIterNew(cs) == PlistDictNewIter(cs)

\* A faulty destructor: the cursor is left allocated.
OwnedDictIterDropLeaking(cs, raw) == cs

\* impl Drop for OwnedDictIter
OwnedDictIterDrop(cs, raw) == Free(cs, raw)

\* An iterator: a DictIter or DictMutIter with its cursor, or an ArrayIter with
\* its index; `yielded` is what next() has returned so far, as <<key, node>>,
\* and `done` whether it has returned None.
Iterator(kind, node, raw) ==
    [kind |-> kind, node |-> node, raw |-> raw, index |-> 0, yielded |-> <<>>,
     done |-> FALSE]

\* DictIter::next / DictMutIter::next: the engine advances the cursor and
\* fills in key and val, or leaves val null at the end.
DictIterNext(h, cs, it) ==
    LET e == PlistDictNextItem(h, it.node, cs[it.raw].pos)
        key == IF e = 0 THEN NoKey ELSE h[it.node].keys[e]
        val == IF e = 0 THEN NULL ELSE h[it.node].kids[e]
        item == {<<MStringFromRawUnchecked(key), node>> : node \in NodeTryFromPtr(val)}
    IN  [cursors |-> IF e = 0 THEN cs ELSE [cs EXCEPT ![it.raw].pos = e],
         ret |-> item,
         it |-> [it EXCEPT !.yielded = IF item = None THEN @
                                       ELSE Append(@, CHOOSE x \in item : TRUE),
                           !.done = @ \/ item = None]]

\* A faulty next: the index moves on by two.
ArrayIterNextSkipping(h, it) ==
    LET result == ArrayNodeGet(h, it.node, USize(it.index))
    IN  [ret |-> {<<NoKey, node>> : node \in result},
         it |-> [it EXCEPT !.index = @ + 2,
                           !.yielded = IF result = None THEN @
                                       ELSE Append(@, <<NoKey, CHOOSE x \in result : TRUE>>),
                           !.done = @ \/ result = None]]

\* ArrayIter::next
ArrayIterNext(h, it) ==
    LET result == ArrayNodeGet(h, it.node, USize(it.index))
    IN  [ret |-> {<<NoKey, node>> : node \in result},
         it |-> [it EXCEPT !.index = @ + 1,
                           !.yielded = IF result = None THEN @
                                       ELSE Append(@, <<NoKey, CHOOSE x \in result : TRUE>>),
                           !.done = @ \/ result = None]]

\* a - b on usize, for b - a below 2^16: what the subtraction gives when it
\* does not overflow, and the outcomes of the builds when it does (a panic
\* with overflow checks, the difference modulo 2^64 without).
USizeSub(a, b) ==
    IF a >= b THEN {[panic |-> FALSE, v |-> USize(a - b)]}
    ELSE {[panic |-> TRUE, v |-> USize(0)],
          [panic |-> FALSE, v |-> <<2^16 - (b - a), 2^16 - 1, 2^16 - 1, 2^16 - 1>>]}

\* ArrayIter::size_hint (and len() of ExactSizeIterator, which returns its
\* lower bound)
ArrayIterSizeHint(h, it) ==
    {[panic |-> remaining.panic, lo |-> remaining.v, hi |-> Some(remaining.v)] :
        remaining \in USizeSub(PlistArrayGetSize(h, it.node), it.index)}

\* impl FromIterator<OwnedNode> for OwnedNode: a new array, extended with the
\* items by push.
OwnedNodeFromIter(h, iter) ==
    LET result == PlistNewArray(h)
        RECURSIVE Extend(_, _)
        Extend(g, i) ==
            IF i > Len(iter) THEN g
            ELSE Extend(ArrayNodePush(g, result.ptr, iter[i]).heap, i + 1)
    IN  [heap |-> Extend(result.heap, 1), ret |-> OwnedNodeFromPtr(result.ptr)]

\* The forests the program iterates over.
IterForests ==
    {<<TDict(<<KeyA, KeyB>>, <<TBool(TRUE), TArray(<<TBool(TRUE), TUint(1)>>)>>),
       TBool(FALSE), TUint(2)>>,
     <<TDict(<<>>, <<>>), TArray(<<TUint(1), TUint(2), TUint(3)>>)>>}

\* The last call on an iterator: the method, the iterator as it was, and what
\* the call returned.
NoCall == [op |-> "", it |-> Iterator("", NULL, NULL), ret |-> None, items |-> <<>>]

InitIter ==
    \E f \in IterForests :
        LET b == BuildForest(EmptyHeap(ForestSize(f) + 1), f)
        IN  /\ heap = b.heap
            /\ owned = b.roots
            /\ refs = {}
            /\ leaked = {}
            /\ crashed = FALSE
            /\ last = Quiet
            /\ original = [forest |-> f, calls |-> 0]
            /\ res = [iters |-> <<>>, cursors |-> NoCursors, opened |-> 0, call |-> NoCall]

\* The nodes an iterator is at work on.
Iterated == {res.iters[i].node : i \in DOMAIN res.iters}

\* dict.iter(), dict.iter_mut(), `for (key, value) in dict`: IntoIterator for
\* &DictNode and &mut DictNode.  An exclusive iterator is the only one of its
\* dictionary.
DictIntoIter ==
    \E d \in Dicts, kind \in {"DictIter", "DictMutIter"} :
        /\ Len(res.iters) < MaxIters
        /\ \E c \in DOMAIN res.cursors : res.cursors[c].st = "unused"
        /\ \A i \in DOMAIN res.iters :
                res.iters[i].node = d =>
                    (kind = "DictIter" /\ res.iters[i].kind = "DictIter")
        /\ LET n == OwnedDictIterNew(res.cursors)
               it == Iterator(kind, d, n.raw)
           IN  res' = [iters |-> Append(res.iters, it), cursors |-> n.cursors,
                       opened |-> res.opened + 1,
                       call |-> [op |-> "into_iter", it |-> it, ret |-> None, items |-> <<>>]]
        /\ UNCHANGED <<heap, owned, refs, leaked, crashed, last, original>>

\* array.iter(), `for child in array`: IntoIterator for &ArrayNode
ArrayIntoIter ==
    \E a \in Arrays :
        /\ Len(res.iters) < MaxIters
        /\ LET it == Iterator("ArrayIter", a, NULL)
           IN  res' = [res EXCEPT !.iters = Append(@, it),
                                  !.call = [op |-> "into_iter", it |-> it, ret |-> None,
                                            items |-> <<>>]]
        /\ UNCHANGED <<heap, owned, refs, leaked, crashed, last, original>>

\* iter.next() on a dictionary iterator, also after it has returned None
DictNextCall ==
    \E i \in DOMAIN res.iters :
        /\ res.iters[i].kind \in {"DictIter", "DictMutIter"}
        /\ LET n == DictIterNext(heap, res.cursors, res.iters[i])
           IN  res' = [res EXCEPT !.iters[i] = n.it, !.cursors = n.cursors,
                                  !.call = [op |-> "next", it |-> res.iters[i], ret |-> n.ret,
                                            items |-> <<>>]]
        /\ UNCHANGED <<heap, owned, refs, leaked, crashed, last, original>>

\* iter.next() on an array iterator
ArrayNextCall ==
    \E i \in DOMAIN res.iters :
        /\ res.iters[i].kind = "ArrayIter"
        /\ res.iters[i].index < PlistArrayGetSize(heap, res.iters[i].node) + MaxPastEnd
        /\ LET n == ArrayIterNext(heap, res.iters[i])
           IN  res' = [res EXCEPT !.iters[i] = n.it,
                                  !.call = [op |-> "next", it |-> res.iters[i], ret |-> n.ret,
                                            items |-> <<>>]]
        /\ UNCHANGED <<heap, owned, refs, leaked, crashed, last, original>>

\* iter.size_hint() on an array iterator, wherever it has got to
SizeHintCall ==
    \E i \in DOMAIN res.iters :
        /\ res.iters[i].kind = "ArrayIter"
        /\ \E hint \in ArrayIterSizeHint(heap, res.iters[i]) :
              res' = [res EXCEPT !.call = [op |-> "size_hint", it |-> res.iters[i],
                                           ret |-> Some(hint), items |-> <<>>]]
        /\ UNCHANGED <<heap, owned, refs, leaked, crashed, last, original>>

\* An iterator goes out of scope, wherever it has got to.
IterDrop ==
    \E i \in DOMAIN res.iters :
        /\ res' = [res EXCEPT !.iters = RemoveAt(@, i),
                              !.cursors = OwnedDictIterDrop(@, res.iters[i].raw),
                              !.call = [op |-> "drop", it |-> res.iters[i], ret |-> None,
                                        items |-> <<>>]]
        /\ UNCHANGED <<heap, owned, refs, leaked, crashed, last, original>>

\* vec![..].into_iter().collect::<OwnedNode>(): the handles of trees that are
\* not being iterated over are moved into a new array.
Collect ==
    \E iter \in SeqsUpTo(owned, 2) :
        /\ Room(1)
        /\ \A i, j \in DOMAIN iter : i # j => iter[i] # iter[j]
        /\ \A i \in DOMAIN iter : Descendants(heap, iter[i]) \cap Iterated = {}
        /\ LET c == OwnedNodeFromIter(heap, iter)
           IN  /\ heap' = c.heap
               /\ owned' = (owned \ Range(iter)) \cup c.ret
               /\ res' = [res EXCEPT !.call = [op |-> "collect", it |-> Iterator("", NULL, NULL),
                                               ret |-> c.ret, items |-> iter]]
        /\ UNCHANGED <<refs, leaked, crashed, last, original>>

NextIter ==
    \/ DictIntoIter \/ ArrayIntoIter \/ DictNextCall \/ ArrayNextCall \/ SizeHintCall
    \/ IterDrop \/ Collect

SpecIter == InitIter /\ [][NextIter]_vars

-----------------------------------------------------------------------------
(* A program that goes on allocating when the engine's memory is used up:  *)
(* the engine's constructors and plist_copy then return the null address.  *)

\* The constructors of OwnedNode and the engine call each one makes.
Constructors == {"new_array", "new_dict", "new_uint", "new_str", "new_bool", "new_real"}

PlistNew(h, op) ==
    CASE op = "new_array" -> PlistNewArray(h)
      [] op = "new_dict" -> PlistNewDict(h)
      [] op = "new_uint" -> PlistNewUint(h, USize(49))
      [] op = "new_str" -> PlistNewString(h, <<97>>)
      [] op = "new_bool" -> PlistNewBool(h, 1)
      [] op = "new_real" -> PlistNewReal(h, <<0, -5, -1>>)

\* OwnedNode::new_array .. new_real: OwnedNode::from_ptr(plist_new_*(..))
OwnedNodeNew(h, op) ==
    LET n == PlistNew(h, op)
    IN  [heap |-> n.heap, ptr |-> n.ptr, ret |-> OwnedNodeFromPtr(n.ptr)]

\* A step of the program that makes a handle.
Handed(op, r) ==
    /\ ~crashed
    /\ heap' = r.heap
    /\ owned' = owned \cup r.ret
    /\ last' = Returned(op, "", r.ret # None, IF r.ret = None THEN NULL ELSE r.ptr, 0)
    /\ UNCHANGED <<refs, leaked, crashed, native>>

AllocNew == \E op \in Constructors : Handed(op, OwnedNodeNew(heap, op))

\* node.to_owned(): a composite is copied when memory holds the copy, a scalar
\* at any time.
AllocCopy ==
    \E r \in refs :
        /\ Readable(r) /\ r.node # NULL /\ IsLive(r.node)
        /\ Descendants(heap, r.node) = {r.node} \/ Room(Cardinality(Descendants(heap, r.node)))
        /\ LET c == NodeToOwned(heap, r.node)
           IN  Handed("to_owned", [heap |-> c.heap, ret |-> c.ret,
                                   ptr |-> PlistCopy(heap, r.node).ptr])

\* A step that looks a node up through a reference and wraps the address the
\* engine returns.
Looked(r, opt) ==
    /\ HasFreshRef /\ Readable(r) /\ r.node # NULL /\ IsLive(r.node)
    /\ RefStep(Borrow(opt, FALSE, SharedFrom(r)))

\* node.parent()
AllocParent == \E r \in refs : r.node # NULL /\ Looked(r, NodeParent(heap, r.node))

\* array.get(index)
AllocGet ==
    \E r \in refs, index \in {USize(0), USize(2)} :
        /\ r.node # NULL /\ NodeArray(heap, r.node).ok
        /\ Looked(r, ArrayNodeGet(heap, r.node, index))

\* A handle goes out of scope; plist_free does nothing for the null address.
AllocDrop ==
    \E a \in owned :
        /\ ~crashed /\ CanMut(Handle(a))
        /\ heap' = IF a = NULL THEN heap ELSE OwnedNodeDrop(heap, a)
        /\ owned' = owned \ {a}
        /\ last' = Returned("drop", "", TRUE, a, 0)
        /\ UNCHANGED <<refs, leaked, crashed, native>>

NextAlloc ==
    \/ AllocNew \/ AllocCopy \/ FromXml \/ FromBinary
    \/ Deref \/ AllocParent \/ AllocGet \/ Release \/ AllocDrop

SpecAlloc == Init /\ [][NextAlloc]_vars

-----------------------------------------------------------------------------
(* internal.rs, native.rs: the buffers the engine hands over, followed     *)
(* step by step from the call that fills them to their release.            *)

\* The functions that receive a buffer: those that go through free_finally
\* and those that wrap the buffer in an MString.
ThroughFreeFinally == {"recv_data", "recv_data_64", "char_ptr_to_string"}

ThroughMString == {"MString::from_plist_node", "String::from_plist_node", "DictIter::next"}

\* let mut data = null_mut(); let mut length = 0;
NoBuffer == [bytes |-> <<>>, st |-> "null", frees |-> 0]

\* The buffer the engine allocates: the content and a closing NUL.
MallocCString(src) == [bytes |-> src \o <<0>>, st |-> "held", frees |-> 0]

\* free(p)
LibcFree(b) == [b EXCEPT !.st = "freed", !.frees = @ + 1]

\* from_raw_parts(data, length as usize).to_vec(): the first `length` bytes;
\* whatever the allocator left there when the buffer has been freed.
FromRawPartsToVec(b, length) ==
    IF b.st = "held" THEN {SubSeq(b.bytes, 1, length)}
    ELSE {v \in ByteSeqs : Len(v) = length}

\* CStr::from_ptr(p): the bytes before the first NUL; of a freed buffer,
\* whatever is found there.
CStrFromPtr(b) ==
    IF b.st = "held" THEN {SubSeq(b.bytes, 1, StrLen(b.bytes))}
    ELSE {v \in ByteSeqs : 0 \notin Range(v)}

\* The closure each function gives to free_finally: what it did and its value.
Closure(fn, b, length) ==
    IF fn = "char_ptr_to_string"
    THEN {IF ValidUtf8(c) THEN [ev |-> "copy", v |-> OkV(c)]
          ELSE [ev |-> "fail", v |-> ErrV([err |-> "Utf8", tag |-> PLIST_NONE])] :
            c \in CStrFromPtr(b)}
    ELSE {[ev |-> "copy", v |-> OkV(c)] : c \in FromRawPartsToVec(b, length)}

\* A faulty free_finally: the pointer is freed before f() runs.
FreeFinallyFreeingFirst(r) ==
    CASE r.pc = "filled" ->
            {[r EXCEPT !.pc = "ran", !.buf = LibcFree(r.buf), !.log = Append(@, "free")]}
      [] r.pc = "ran" ->
            {[r EXCEPT !.pc = "freed", !.result = x.v, !.log = Append(@, x.ev)] :
                x \in Closure(r.fn, r.buf, r.length)}
      [] r.pc = "freed" -> {[r EXCEPT !.pc = "done"]}
      [] OTHER -> {}

\* free_finally(p, f), one statement at a time: let result = f(); free(p);
\* result
FreeFinally(r) ==
    CASE r.pc = "filled" ->
            {[r EXCEPT !.pc = "ran", !.result = x.v, !.log = Append(@, x.ev)] :
                x \in Closure(r.fn, r.buf, r.length)}
      [] r.pc = "ran" ->
            {[r EXCEPT !.pc = "freed", !.buf = LibcFree(r.buf), !.log = Append(@, "free")]}
      [] r.pc = "freed" -> {[r EXCEPT !.pc = "done"]}
      [] OTHER -> {}

InitBuf ==
    /\ original \in [fn : ThroughFreeFinally \cup ThroughMString, src : ByteSeqs]
    /\ res = [fn |-> original.fn, pc |-> "start", buf |-> NoBuffer, length |-> 0,
              log |-> <<>>, result |-> OkV(<<>>), mstring |-> FALSE]
    /\ heap = EmptyHeap(1)
    /\ owned = {}
    /\ refs = {}
    /\ leaked = {}
    /\ crashed = FALSE
    /\ last = Quiet

\* Only the call in progress changes.
BufStep(r) == res' = r /\ UNCHANGED <<heap, owned, refs, leaked, crashed, last, original>>

\* f(&mut data, &mut length) / plist_get_string_val(node, &mut result) /
\* plist_dict_next_item(node, iter, &mut key, &mut val): the engine allocates
\* the buffer and reports its length.
BufCall ==
    /\ res.pc = "start"
    /\ BufStep([res EXCEPT !.pc = "filled", !.buf = MallocCString(original.src),
                           !.length = Len(original.src)])

\* recv_data, recv_data_64, char_ptr_to_string: the statements of free_finally
BufFreeFinally ==
    /\ res.fn \in ThroughFreeFinally
    /\ \E r \in FreeFinally(res) : BufStep(r)

\* MString::from_raw_unchecked(result): the buffer itself becomes the MString.
BufWrap ==
    /\ res.fn \in ThroughMString /\ res.pc = "filled"
    /\ BufStep([res EXCEPT !.mstring = TRUE,
                           !.result = OkV(MStringFromRawUnchecked(res.buf.bytes)),
                           !.pc = IF res.fn = "String::from_plist_node" THEN "wrapped"
                                  ELSE "done"])

\* String::from_plist_node: let sr: &str = &mstring; Ok(sr.to_owned())
BufToOwned ==
    /\ res.fn = "String::from_plist_node" /\ res.pc = "wrapped"
    /\ \E c \in CStrFromPtr(res.buf) :
          BufStep([res EXCEPT !.pc = "ran", !.result = OkV(c), !.log = Append(@, "copy")])

\* The MString goes out of scope: at the end of String::from_plist_node, or
\* when the caller of MString::from_plist_node or DictIter::next drops it.
BufDropMString ==
    /\ res.mstring
    /\ res.pc = IF res.fn = "String::from_plist_node" THEN "ran" ELSE "done"
    /\ BufStep([res EXCEPT !.mstring = FALSE, !.buf = LibcFree(res.buf),
                           !.log = Append(@, "free"),
                           !.pc = IF res.fn = "String::from_plist_node" THEN "done"
                                  ELSE "dropped"])

NextBuf == BufCall \/ BufFreeFinally \/ BufWrap \/ BufToOwned \/ BufDropMString

SpecBuf == InitBuf /\ [][NextBuf]_vars

-----------------------------------------------------------------------------
(* Ownership and borrowing.                                                *)

\* The nodes whose tree the program took out of the crate's hands.
Leaked == UNION {Descendants(heap, a) : a \in leaked}

\* C2 (as the code has it): no engine node is ever freed twice, and once every
\* owning handle is gone each allocated node has been freed exactly once,
\* through its own handle or through the composite it was moved into, unless
\* the program consumed the handle of its tree with OwnedNode::take, which
\* hands the tree out unfreed.
C2_FreedOnce ==
    /\ \A a \in DOMAIN heap : heap[a].frees <= 1
    /\ (owned = {} /\ ~crashed) =>
            \A a \in Allocated(heap) \ Leaked : heap[a].st = "freed" /\ heap[a].frees = 1

\* C2 as stated: once every owning handle is gone, every allocated node has
\* been freed exactly once, take() being one of the operations.
C2_AllFreedOnce ==
    (owned = {} /\ ~crashed) => \A a \in Allocated(heap) : heap[a].frees = 1

\* A handle that owned a composite of three nodes was dropped, nothing of what
\* was allocated is left and nothing was taken.
C2_Witness ==
    /\ owned = {} /\ leaked = {} /\ ~crashed
    /\ last.op = "drop" /\ last.n = 3
    /\ \A a \in Allocated(heap) : heap[a].frees = 1

\* C3 as stated: no live reference refers to a node that has been freed.
C3_NoUseAfterFree == \A r \in refs : heap[r.node].st = "live"

\* A reference (or the reference an iterator holds) that the borrow checker
\* lets the program use now: nothing borrowed from it excludes it.
Usable(r) == r \in refs /\ (r.mut => CanMut(r.node))

\* C4 as stated: the usable references to one node are any number of shared
\* ones or a single exclusive one.
C4_SharedXorExclusive ==
    \A r, q \in refs :
        (r # q /\ r.node = q.node /\ Usable(r) /\ Usable(q)) => (~r.mut /\ ~q.mut)

\* C10: a deserializer given malformed input returns None, the process goes
\* on, and no handle ever wraps the null address.
C10_MalformedIsNone ==
    /\ NULL \notin owned
    /\ (last.op \in {"from_xml", "from_binary"} /\ ~WellFormed(last.arg)) =>
            (~last.ok /\ last.ptr = NULL /\ ~crashed)

\* from_binary has just been given the malformed "??" and returned None.
C10_Witness ==
    last.op = "from_binary" /\ last.arg = "??" /\ ~last.ok /\ owned # {}

-----------------------------------------------------------------------------
(* Conversions.                                                            *)

\* `==` of a scalar native type: a NaN equals nothing, itself included.
ScalarEq(ty, a, b) == IF ty \in RealTypes THEN a # NaN /\ a = b ELSE a = b

\* original == v, for a value v of the type of original
NativeEq(x, v) ==
    CASE x.ty = "Vec" ->
            Len(x.v) = Len(v) /\ \A i \in DOMAIN v : ScalarEq(x.el, x.v[i], v[i])
      [] x.ty \in MapTypes ->
            DOMAIN x.v = DOMAIN v /\ \A k \in DOMAIN v : ScalarEq(x.el, x.v[k], v[k])
      [] OTHER -> ScalarEq(x.ty, x.v, v)

\* The node was converted back to the type of the original.
Converted == res.stage \in {"b", "m"} /\ res.ty = original.ty /\ res.el = original.el

\* The round trip as far as it got: no panic, Ok(original), n == m.
RoundTrips ==
    /\ res.stage # "panic"
    /\ Converted => (res.b.ok /\ NativeEq(original, res.b.v))
    /\ res.stage = "m" => res.eq

\* The seconds since 2001 of t fit an i32.
InDateRange(t) ==
    LET d == WSub(t.secs, Wide(TIMESTAMP_OFFSET))
    IN  d.hi >= 0 - 2^15 /\ d.hi < 2^15

\* The values a node can carry as they are: a string without NUL, an instant
\* of whole microseconds in the range of the engine's date, a real number.
Carried(ty, v) ==
    CASE ty = "String" -> 0 \notin Range(v)
      [] ty = "SystemTime" -> v.nanos % 1000 = 0 /\ InDateRange(v)
      [] ty \in RealTypes -> v # NaN
      [] OTHER -> TRUE

AllCarried(x) ==
    CASE x.ty = "Vec" -> \A i \in DOMAIN x.v : Carried(x.el, x.v[i])
      [] x.ty \in MapTypes ->
            \A k \in DOMAIN x.v : 0 \notin Range(k) /\ Carried(x.el, x.v[k])
      [] OTHER -> Carried(x.ty, x.v)

\* The types of C1: all of the model but CStr, which converts one way only.
Supported == original.ty # "CStr"

\* C1 (as the code has it): a value of a supported native type converts to a
\* node and back to Ok of an equal value, and converts again to a node equal to
\* the first, provided that its strings and keys hold no NUL byte, its instants
\* are whole microseconds at most 2^31 seconds away from 2001, and its reals
\* are not NaN.
C1_RoundTrip == (Supported /\ AllCarried(original)) => RoundTrips

\* C1 as stated: every value of a supported native type makes the round trip.
C1_EveryValue == Supported => RoundTrips

\* A HashMap of two entries made the whole round trip.
C1_Witness ==
    /\ res.stage = "m" /\ res.eq /\ res.b.ok
    /\ original.ty = "HashMap" /\ Cardinality(DOMAIN original.v) = 2

RECURSIVE StructEq(_, _, _)
\* Structural equality: arrays by length and position, dictionaries by key set
\* and per key, scalars by the engine's comparison.
StructEq(h, a, b) ==
    CASE h[a].tag = PLIST_ARRAY /\ h[b].tag = PLIST_ARRAY ->
            /\ Len(h[a].kids) = Len(h[b].kids)
            /\ \A i \in DOMAIN h[a].kids : StructEq(h, h[a].kids[i], h[b].kids[i])
      [] h[a].tag = PLIST_DICT /\ h[b].tag = PLIST_DICT ->
            /\ Range(h[a].keys) = Range(h[b].keys)
            /\ \A k \in Range(h[a].keys) :
                    StructEq(h, h[a].kids[IndexOf(h[a].keys, k)],
                             h[b].kids[IndexOf(h[b].keys, k)])
      [] OTHER -> PlistCompareNodeValue(h, a, b)

\* C5: == on two nodes is structural equality: arrays are equal iff they have
\* the same length and equal children at every index, dictionaries iff they
\* have the same keys and equal values under every key, whatever the order of
\* their entries, and scalars iff the engine's value comparison says so.
C5_Structural == res.stage = "eq" => (res.eq <=> StructEq(heap, res.l, res.r))

\* Two dictionaries of two entries in different orders compared equal.
C5_Witness ==
    /\ res.stage = "eq" /\ res.eq /\ res.l # res.r
    /\ heap[res.l].tag = PLIST_DICT /\ Len(heap[res.l].keys) = 2
    /\ heap[res.l].keys # heap[res.r].keys

Before1970(t) == t.secs.hi < 0

\* t, to microsecond precision.
FloorMicros(t) == [secs |-> t.secs, nanos |-> t.nanos - (t.nanos % 1000)]

\* The date node holds floor(unix seconds) - 978307200 and the microseconds of
\* the instant, and converts back to the instant.
DateRoundTrip ==
    /\ res.stage \in {"n", "b", "m", "expect"} =>
            LET d == PlistGetDateVal(heap, res.n)
            IN  /\ Wide(d[1]) = WSub(original.v.secs, Wide(TIMESTAMP_OFFSET))
                /\ d[2] \in 0..(MICROS - 1)
                /\ d[2] = original.v.nanos \div 1000
    /\ (res.stage \in {"b", "m"} /\ res.ty = "SystemTime") =>
            (res.b.ok /\ res.b.v = FloorMicros(original.v))

RequiredTag(ty) ==
    CASE ty = "bool" -> "Boolean"
      [] ty \in IntTypes -> "UInt"
      [] ty \in RealTypes -> "Real"
      [] ty \in {"String", "MString"} -> "String"
      [] ty = "Data" -> "Data"
      [] ty = "SystemTime" -> "Date"

\* Ok exactly when the node's tag is `required`, Err(UnsupportedType(actual))
\* otherwise.
TagChecked(required) ==
    /\ res.b.ok <=> NodeType(heap, res.n) = required
    /\ ~res.b.ok => (res.b.err = "UnsupportedType" /\ res.b.tag = NodeType(heap, res.n))

C9_InvalidUtf8IsErr ==
    (/\ res.stage = "b" /\ res.ty = "String"
     /\ NodeType(heap, res.n) = PLIST_STRING
     /\ ~ValidUtf8(PlistGetStringVal(heap, res.n)))
        => (~res.b.ok /\ res.b.err = "Utf8")

\* Model sanity: at most one exclusive reference per node.
MutUnique == \A r, q \in refs : (r.mut /\ q.mut /\ r.node = q.node) => r = q

-----------------------------------------------------------------------------
(* The array and dictionary views.                                         *)

\* The children of the node the last call was made on, before and after it.
KidsBefore == res.before[res.node].kids

KidsAfter == heap[res.node].kids

\* index < n, for a usize index
InBounds(index, n) == index[3] = 0 /\ index[4] = 0 /\ U32(index) < n

RECURSIVE Shape(_, _)
\* The document under a node: what BuildTree would build it from.
Shape(h, a) ==
    [tag |-> h[a].tag, val |-> h[a].val, keys |-> h[a].keys,
     kids |-> [i \in DOMAIN h[a].kids |-> Shape(h, h[a].kids[i])]]

\* The subtree of a is what it was before the last call, node by node.
SameTree(a) ==
    /\ Descendants(heap, a) = Descendants(res.before, a)
    /\ \A b \in Descendants(heap, a) \ {a} : heap[b] = res.before[b]
    /\ Shape(heap, a) = Shape(res.before, a)

\* The item of the last call is the child at position j (from 1) now, with the
\* content it had.
ItemAt(j) == KidsAfter[j] = res.item /\ SameTree(res.item)

\* The child at position j before is the child at position k now, untouched.
Moved(j, k) == KidsAfter[k] = KidsBefore[j] /\ SameTree(KidsBefore[j])

\* C11: on an array of length n and for 0 <= i < n, set(i, x) keeps the length,
\* puts x at index i and leaves the other elements as they were; insert(i, x)
\* makes the length n + 1, puts x at index i and shifts the elements i..n-1 up
\* by one; remove(i) makes the length n - 1 and shifts the elements i+1..n-1
\* down by one; push(x) appends x at index n.
C11_ArrayMutation ==
    LET n == Len(KidsBefore)
        i == U32(res.index) + 1
    IN  /\ (res.op = "set" /\ InBounds(res.index, n)) =>
                /\ ~crashed /\ Len(KidsAfter) = n /\ ItemAt(i)
                /\ \A j \in 1..n : j # i => Moved(j, j)
        /\ (res.op = "insert" /\ InBounds(res.index, n)) =>
                /\ ~crashed /\ Len(KidsAfter) = n + 1 /\ ItemAt(i)
                /\ \A j \in 1..n : IF j < i THEN Moved(j, j) ELSE Moved(j, j + 1)
        /\ (res.op = "remove" /\ InBounds(res.index, n)) =>
                /\ ~crashed /\ Len(KidsAfter) = n - 1
                /\ \A j \in 1..n : /\ j < i => Moved(j, j)
                                   /\ j > i => Moved(j, j - 1)
        /\ res.op = "push" =>
                /\ ~crashed /\ Len(KidsAfter) = n + 1 /\ ItemAt(n + 1)
                /\ \A j \in 1..n : Moved(j, j)

\* [true, false, true, 49] after set(1, "foo"), insert(0, -2.5), remove(3).
C11_Witness ==
    /\ res.op = "remove" /\ res.index = USize(3) /\ ~crashed
    /\ Shape(heap, res.node) =
            Shape(BuildTree(EmptyHeap(5), TArray(<<TReal(<<0, -5, -1>>), TBool(TRUE),
                                                   TString(<<102, 111, 111>>),
                                                   TUint(49)>>)).heap, 1)

\* C12: get(i) of an array is None when i >= len() and the i-th child when
\* i < len(), for every usize i.
C12_GetInBounds ==
    res.op = "get" =>
        IF InBounds(res.index, Len(KidsBefore))
        THEN res.ret = Some(KidsBefore[U32(res.index) + 1])
        ELSE res.ret = None

\* The entries of a dictionary: key -> child.
Entries(h, a) ==
    [k \in Range(h[a].keys) |-> h[a].kids[IndexOf(h[a].keys, k)]]

\* The node tree under a was released, every node of it once.
FreedOnce(a) ==
    \A b \in Descendants(res.before, a) : heap[b].st = "freed" /\ heap[b].frees = 1

\* C13: insert(k, v) into a dictionary grows it by one when k was absent, and
\* keeps its length, releasing the prior value once, when k was present; then
\* get(k) is v and every other entry is as it was.  remove(k) of a present key
\* shrinks it by one, releases the value, and get(k) is None; every other entry
\* is as it was.
C13_DictMutation ==
    LET old == Entries(res.before, res.node)
        new == Entries(heap, res.node)
        others == DOMAIN old \ {res.key}
    IN  /\ res.op = "dict_insert" =>
                /\ ~crashed
                /\ Len(heap[res.node].keys) = Cardinality(DOMAIN new)
                /\ DOMAIN new = DOMAIN old \cup {res.key}
                /\ IF res.key \in DOMAIN old
                   THEN Len(KidsAfter) = Len(KidsBefore) /\ FreedOnce(old[res.key])
                   ELSE Len(KidsAfter) = Len(KidsBefore) + 1
                /\ DictNodeGet(heap, res.node, res.key) = Some(res.item)
                /\ SameTree(res.item)
                /\ \A k \in others : new[k] = old[k] /\ SameTree(old[k])
        /\ (res.op = "dict_remove" /\ res.key \in DOMAIN old) =>
                /\ ~crashed
                /\ Len(KidsAfter) = Len(KidsBefore) - 1
                /\ DOMAIN new = others
                /\ FreedOnce(old[res.key])
                /\ DictNodeGet(heap, res.node, res.key) = None
                /\ \A k \in others : new[k] = old[k] /\ SameTree(old[k])

\* A value was inserted under a key that held an array of two: the array and
\* its children are gone.
C13_Witness ==
    /\ res.op = "dict_insert" /\ ~crashed
    /\ res.key \in Range(res.before[res.node].keys)
    /\ Cardinality(Descendants(res.before, Entries(res.before, res.node)[res.key])) = 3

\* The composites that hold x as a direct child.
Holders(h, x) == {p \in Live(h) : x \in Range(h[p].kids)}

\* C14: parent() is None iff the node is a root; get_index_in_array() is
\* Some(i) with the node at index i of its parent iff its direct parent is an
\* array, None otherwise; get_key_in_dict() is Some(k) with the node stored
\* under k in its parent iff its direct parent is a dictionary, None otherwise.
C14_ParentIndexKey ==
    LET x == res.node
        up == Holders(heap, x)
    IN  /\ res.op = "parent" => res.ret = up
        /\ res.op = "get_index_in_array" =>
                IF \E p \in up : heap[p].tag = PLIST_ARRAY
                THEN \E i \in res.ret, p \in up :
                        /\ InBounds(i, Len(heap[p].kids))
                        /\ ArrayNodeGet(heap, p, i) = Some(x)
                ELSE res.ret = None
        /\ res.op = "get_key_in_dict" =>
                IF \E p \in up : heap[p].tag = PLIST_DICT
                THEN \E k \in res.ret, p \in up : DictNodeGet(heap, p, k) = Some(x)
                ELSE res.ret = None

\* The second child of an array inside a dictionary was asked for its index.
C14_Witness ==
    /\ res.op = "get_index_in_array" /\ res.ret = Some(USize(1))
    /\ \E p \in Holders(heap, res.node) : Holders(heap, p) # {}

\* C15: to_owned / clone return a handle on a deep copy: a root, equal in
\* structure to the source, made of nodes that were not in use; and a later
\* call on one tree (or a drop of it) leaves every other tree as it was.
C15_DeepCopy ==
    /\ res.op = "to_owned" =>
            \E c \in res.ret :
                /\ c \in owned /\ Holders(heap, c) = {} /\ NodeParent(heap, c) = None
                /\ Shape(heap, c) = Shape(res.before, res.node)
                /\ NodeEq(heap, c, res.node)
                /\ \A b \in Descendants(heap, c) : res.before[b].st = "unused"
                /\ Descendants(heap, c) \cap Descendants(heap, res.node) = {}
    /\ res.op # "" =>
            \A t \in owned :
                (res.before[t].st = "live" /\ t # RootOf(res.before, res.node) /\ t # res.item)
                    => SameTree(t) /\ heap[t] = res.before[t]

\* An array of two inside a dictionary was copied.
C15_Witness ==
    /\ res.op = "to_owned" /\ res.ret # None
    /\ Holders(heap, res.node) # {} /\ Len(heap[res.node].kids) = 2

\* What the element conversions of the children give, in order.
Elements(h, kids, el) == [j \in DOMAIN kids |-> ScalarFromPlistNode(h, kids[j], el)]

\* The first failure of a sequence of results, 0 when there is none.
FirstErr(rs) ==
    IF \A j \in DOMAIN rs : rs[j].ok THEN 0
    ELSE CHOOSE j \in DOMAIN rs : ~rs[j].ok /\ \A l \in 1..(j - 1) : rs[l].ok

\* C20: Vec<T>::from_plist_node on an array is Ok of the children's
\* conversions in order when all of them convert, a map's is Ok of one entry
\* per entry of the dictionary; otherwise it is the error of the first child
\* that fails, with no partial collection; the tree is left as it was.
C20_Elementwise ==
    (res.op = "from_plist_node" /\ heap[res.node].tag = NodeTypeOf(res.ty[1])) =>
        LET rs == Elements(heap, KidsAfter, res.ty[2])
            f == FirstErr(rs)
            keys == heap[res.node].keys
        IN  /\ heap = res.before
            /\ IF f # 0 THEN res.ret = rs[f] /\ res.ret.v = <<>>
               ELSE /\ res.ret.ok
                    /\ IF res.ty[1] = "Vec"
                       THEN res.ret.v = [j \in DOMAIN rs |-> rs[j].v]
                       ELSE /\ DOMAIN res.ret.v = Range(keys)
                            /\ Cardinality(DOMAIN res.ret.v) = Len(KidsAfter)
                            /\ \A j \in DOMAIN keys : res.ret.v[keys[j]] = rs[j].v

\* The array [1, true, "a"] was converted to a sequence of u16 and failed on
\* its second child.
C20_Witness ==
    /\ res.op = "from_plist_node" /\ res.ty = <<"Vec", "u16">>
    /\ ~res.ret.ok /\ res.ret.tag = PLIST_BOOLEAN /\ Len(KidsAfter) = 3
    /\ heap[KidsAfter[3]].tag = PLIST_STRING


-----------------------------------------------------------------------------
(* Iteration.                                                              *)

\* The dictionary iterators alive.
DictIters ==
    {i \in DOMAIN res.iters : res.iters[i].kind \in {"DictIter", "DictMutIter"}}

\* C16: every dictionary traversal opens one cursor of its own, which is
\* released once when the iterator goes, whether at the end, part of the way
\* or before the first next(); no cursor is released twice or left allocated
\* without an iterator.
C16_CursorReleasedOnce ==
    LET cs == res.cursors
    IN  /\ Cardinality({c \in DOMAIN cs : cs[c].st # "unused"}) = res.opened
        /\ \A i, j \in DictIters : i # j => res.iters[i].raw # res.iters[j].raw
        /\ {c \in DOMAIN cs : cs[c].st = "open"} = {res.iters[i].raw : i \in DictIters}
        /\ \A c \in DOMAIN cs : cs[c].st = "freed" => cs[c].frees = 1
        /\ (res.call.op = "drop" /\ res.call.it.kind # "ArrayIter") =>
                cs[res.call.it.raw].st = "freed"

\* An iterator over two entries was dropped after the first, and no cursor is
\* left.
C16_Witness ==
    /\ res.call.op = "drop" /\ res.call.it.kind = "DictMutIter"
    /\ Len(res.call.it.yielded) = 1 /\ ~res.call.it.done
    /\ PlistDictGetSize(heap, res.call.it.node) = 2
    /\ \A c \in DOMAIN res.cursors : res.cursors[c].st # "open"

\* What C18 asks of a dictionary iterator.
YieldsEntries(it) ==
    LET n == PlistDictGetSize(heap, it.node)
        y == it.yielded
    IN  /\ Len(y) <= n
        /\ \A j \in DOMAIN y : DictNodeGet(heap, it.node, y[j][1]) = Some(y[j][2])
        /\ \A j, k \in DOMAIN y : j # k => y[j][2] # y[k][2]
        /\ it.done => (Len(y) = n /\ {y[j][2] : j \in DOMAIN y} = Range(heap[it.node].kids))

\* C18: a dictionary of n entries yields n pairs and then None: every entry
\* once, under the key it is stored under, and no child twice.
C18_DictIterYields ==
    /\ \A i \in DictIters : YieldsEntries(res.iters[i])
    /\ (res.call.op = "next" /\ res.call.it.kind # "ArrayIter") =>
            (res.call.ret = None
                <=> Len(res.call.it.yielded) = PlistDictGetSize(heap, res.call.it.node))

\* An iterator over two entries has yielded both and then None.
C18_Witness ==
    \E i \in DictIters :
        /\ res.iters[i].done /\ Len(res.iters[i].yielded) = 2
        /\ res.call.op = "next" /\ res.call.ret = None /\ res.call.it = res.iters[i]

\* C19: an array of n children yields the children at 0, 1, ..., n-1 in that
\* order and then None; an iterator of handles collected into an OwnedNode
\* gives an array whose i-th child is the i-th item.
C19_ArrayIterYields ==
    /\ \A i \in DOMAIN res.iters \ DictIters :
            LET it == res.iters[i]
                kids == heap[it.node].kids
            IN  /\ Len(it.yielded) <= Len(kids)
                /\ \A j \in DOMAIN it.yielded : it.yielded[j] = <<NoKey, kids[j]>>
                /\ it.done => Len(it.yielded) = Len(kids)
    /\ (res.call.op = "next" /\ res.call.it.kind = "ArrayIter") =>
            (res.call.ret = None
                <=> Len(res.call.it.yielded) = PlistArrayGetSize(heap, res.call.it.node))
    /\ res.call.op = "collect" =>
            \E r \in res.call.ret :
                /\ r \in owned /\ NodeArray(heap, r).ok
                /\ ArrayNodeLen(heap, r) = USize(Len(res.call.items))
                /\ \A j \in DOMAIN res.call.items :
                        ArrayNodeGet(heap, r, USize(j - 1)) = Some(res.call.items[j])

\* Two handles were collected into an array, and an iterator over it has
\* yielded both and then None.
C19_Witness ==
    /\ res.call.op = "next" /\ res.call.ret = None /\ res.call.it.kind = "ArrayIter"
    /\ res.call.it.node \in owned /\ Len(res.call.it.yielded) = 2

\* C17: while an iterator (and so a cursor) is open on a dictionary, no step
\* of a safe program inserts into that dictionary or removes from it.
C17_NoMutationUnderCursor ==
    [][\A r \in refs :
            (/\ r.kind \in {"iter", "itermut"} /\ r \in refs'
             /\ heap[r.node].st = "live" /\ heap'[r.node].st = "live")
                => (heap'[r.node].kids = heap[r.node].kids
                        /\ heap'[r.node].keys = heap[r.node].keys)]_vars

-----------------------------------------------------------------------------
(* Conversions of maps and numbers.                                        *)

\* to_plist_node has been called on the original map, whose keys hold no NUL.
MapConverted ==
    /\ original.ty \in MapTypes
    /\ res.stage # "start" /\ ~(res.stage = "panic" /\ res.n # NULL)
    /\ \A k \in DOMAIN original.v : 0 \notin Range(k)

\* The conversion of a value on its own: the node it makes, or a panic.
Alone(el, v) == ScalarToPlistNode(EmptyHeap(1), el, v)

C22_OutOfBoundsIsFatal ==
    LET n == Len(KidsBefore)
    IN  /\ (res.op \in {"set", "remove"} /\ ~InBounds(res.index, n)) => crashed
        /\ (res.op = "insert" /\ ~InBounds(res.index, n + 1)) => crashed
        /\ (res.op = "dict_remove" /\ res.key \notin Range(res.before[res.node].keys))
                => crashed

-----------------------------------------------------------------------------
(* Null addresses.                                                         *)

\* C23 as stated: no owning handle and no reference holds the null address,
\* whatever the engine's constructors, copy, lookups and parsers return.
C23_NeverNull == NULL \notin owned /\ \A r \in refs : r.node # NULL

-----------------------------------------------------------------------------
(* Numbers.                                                                *)

RECURSIVE Carry(_, _, _)
\* The carry out of limb i of the sum of two numbers of as many limbs.
Carry(a, b, i) == IF i = 0 THEN 0 ELSE (a[i] + b[i] + Carry(a, b, i - 1)) \div 2^16

\* The sum of two numbers of n limbs, modulo 2^(16 n).
LimbSum(a, b) == [i \in DOMAIN a |-> (a[i] + b[i] + Carry(a, b, i - 1)) % 2^16]

\* A value of a signed type below zero.
Negative(ty, v) == Signed(ty) /\ v[Len(v)] >= 2^15

\* The magnitude |v| of a negative v, in the limbs of its type.
Magnitude(v) ==
    LimbSum([i \in DOMAIN v |-> 2^16 - 1 - v[i]], [i \in DOMAIN v |-> IF i = 1 THEN 1 ELSE 0])

\* A number not below zero, in four limbs.
ZeroExt(v) == [i \in 1..4 |-> IF i <= Len(v) THEN v[i] ELSE 0]

\* The payload p is v modulo 2^64: v when v >= 0, and 2^64 - |v| when v < 0.
IsModulo64(ty, v, p) ==
    IF Negative(ty, v) THEN LimbSum(p, ZeroExt(Magnitude(v))) = ZeroExt(<<>>)
    ELSE p = ZeroExt(v)

\* The payload p is a value of the integer type ty.
Representable(p, ty) ==
    /\ \A i \in 1..4 : i > Limbs(ty) => p[i] = 0
    /\ Signed(ty) => p[Limbs(ty)] < 2^15

\* The node made from the original is there.
HasNode == res.stage \in {"n", "b", "expect", "m"}

\* C24: to_plist_node of a value v of an integer type stores v modulo 2^64 in
\* a UInt node; from_plist_node of an integer type U on a UInt node is Ok of
\* the payload when the payload is a value of U; an f32 is stored as the double
\* of the same value and read back as the f32 it was.
C24_ThroughU64 ==
    /\ (original.ty \in IntTypes /\ HasNode) =>
            /\ NodeType(heap, res.n) = PLIST_UINT
            /\ IsModulo64(original.ty, original.v, PlistGetUintVal(heap, res.n))
    /\ (/\ res.stage = "b" /\ res.ty \in IntTypes /\ NodeType(heap, res.n) = PLIST_UINT
        /\ Representable(PlistGetUintVal(heap, res.n), res.ty)) =>
            /\ res.b.ok /\ Len(res.b.v) = Limbs(res.ty) /\ ~Negative(res.ty, res.b.v)
            /\ ZeroExt(res.b.v) = PlistGetUintVal(heap, res.n)
    /\ (original.ty = "f32" /\ HasNode) =>
            /\ NodeType(heap, res.n) = PLIST_REAL
            /\ PlistGetRealVal(heap, res.n) = original.v
    /\ (original.ty = "f32" /\ res.stage = "b" /\ res.ty = "f32") =>
            (res.b.ok /\ res.b.v = original.v)

\* -1i16 was stored as 2^64 - 1 and read as a u64.
C24_Witness ==
    /\ original.ty = "i16" /\ original.v = <<2^16 - 1>>
    /\ res.stage = "b" /\ res.ty = "u64" /\ res.b.ok
    /\ res.b.v = <<2^16 - 1, 2^16 - 1, 2^16 - 1, 2^16 - 1>>

\* C29: from_plist_node of an integer type of width w on a UInt node never
\* fails: it is Ok of the payload modulo 2^w, the low w bits of the payload
\* read as a two's complement number when the type is signed, whether the
\* payload is a value of the type or not.
C29_NarrowingNeverFails ==
    (res.stage = "b" /\ res.ty \in IntTypes /\ NodeType(heap, res.n) = PLIST_UINT) =>
        LET p == PlistGetUintVal(heap, res.n)
        IN  /\ res.b.ok
            /\ DOMAIN res.b.v = 1..Limbs(res.ty)
            /\ \A i \in 1..Limbs(res.ty) : res.b.v[i] = p[i]

\* The payload 2^63 + 65535 was read as an i16: Ok(-1).
C29_Witness ==
    /\ original.ty = "u64" /\ original.v = <<2^16 - 1, 0, 0, 2^15>>
    /\ res.stage = "b" /\ res.ty = "i16" /\ res.b.ok /\ res.b.v = <<2^16 - 1>>
    /\ ~Representable(PlistGetUintVal(heap, res.n), "i16")

-----------------------------------------------------------------------------
(* The forest.                                                             *)

\* The places a node is held at: <<composite, position>>.
Places(h, x) ==
    {pl \in Live(h) \X (1..Cardinality(DOMAIN h)) :
        pl[2] \in DOMAIN h[pl[1]].kids /\ h[pl[1]].kids[pl[2]] = x}

RECURSIVE AncestorsWithin(_, _, _)
\* The ancestors of a that are at most k steps up.
AncestorsWithin(h, a, k) ==
    IF k = 0 \/ h[a].parent = NULL THEN {}
    ELSE {h[a].parent} \cup AncestorsWithin(h, h[a].parent, k - 1)

\* The live nodes form a forest whose roots include every handle's node.
IsForest(h, handles) ==
    /\ \A a \in Live(h) :
            /\ Cardinality(Places(h, a)) <= 1
            /\ \A pl \in Places(h, a) : h[a].parent = pl[1]
            /\ Places(h, a) = {} => h[a].parent = NULL
            /\ a \notin AncestorsWithin(h, a, Cardinality(DOMAIN h))
            /\ \A i \in DOMAIN h[a].kids : h[a].kids[i] \in Live(h)
    /\ \A a \in handles : a \in Live(h) /\ h[a].parent = NULL /\ Places(h, a) = {}

\* The handles a step moves into a composite: gone from the program, neither
\* dropped nor taken by it.
Passed == {b \in owned \ owned' : b \notin leaked' /\ heap'[b].st = "live"}

\* C25: in every state of a safe program the nodes form a forest: a node is
\* held at one place at most, which is its parent's, no node is its own
\* ancestor, and every handle refers to a root; and a node that push, set,
\* insert or a dictionary's insert is given has no parent when it is given.
C25_Forest ==
    /\ []IsForest(heap, owned)
    /\ [][\A b \in Passed : heap[b].parent = NULL /\ Places(heap, b) = {}]_vars

\* An array that holds a dictionary that holds a boolean, under one handle.
C25_Witness ==
    \E a \in owned :
        /\ owned = {a} /\ heap[a].tag = PLIST_ARRAY /\ Len(heap[a].kids) = 1
        /\ LET d == heap[a].kids[1]
           IN  /\ heap[d].tag = PLIST_DICT /\ Len(heap[d].kids) = 1
               /\ heap[heap[d].kids[1]].tag = PLIST_BOOLEAN

-----------------------------------------------------------------------------
(* Buffers.                                                                *)

\* The buffer the engine handed over has been released.
Released == res.buf.st = "freed"

\* What the call returns for the content src.
Expected(fn, src) ==
    LET c == SubSeq(src, 1, StrLen(src))
    IN  IF fn # "char_ptr_to_string" THEN OkV(src)
        ELSE IF ValidUtf8(c) THEN OkV(c)
        ELSE ErrV([err |-> "Utf8", tag |-> PLIST_NONE])

\* The buffer is freed once at most, after the copy was made (or after the
\* conversion failed, in char_ptr_to_string).
CopiedThenFreed ==
    /\ res.buf.frees <= 1
    /\ Released =>
          /\ res.buf.frees = 1
          /\ \/ res.log = <<"copy", "free">>
             \/ res.fn = "char_ptr_to_string" /\ res.log = <<"fail", "free">>

\* C26 (as the code has it): a buffer received by recv_data, recv_data_64 or
\* char_ptr_to_string is copied first and freed next, once, on the success
\* path and on the invalid-UTF-8 path of char_ptr_to_string alike, and the
\* call returns the first `length` bytes of the buffer (char_ptr_to_string:
\* the bytes before the first NUL, or Err(Utf8)); it is always freed by the
\* time the call returns.  String::from_plist_node copies out of the MString
\* before the MString frees the buffer.
C26_CopiedThenFreed ==
    /\ res.fn \in ThroughFreeFinally \cup {"String::from_plist_node"} => CopiedThenFreed
    /\ res.fn \in ThroughFreeFinally /\ res.pc \in {"ran", "freed", "done"}
          => res.result = Expected(res.fn, original.src)
    /\ res.fn \in ThroughFreeFinally \cup {"String::from_plist_node"} /\ res.pc = "done"
          => Released

\* recv_data has returned the two bytes of a buffer it has freed.
C26_Witness ==
    /\ res.fn = "recv_data" /\ res.pc = "done" /\ Released
    /\ Len(original.src) = 2 /\ res.result = OkV(original.src)

\* C26 (as the spec has it): every buffer the engine hands over, C strings
\* included, is copied first and released next, once.
C26_EveryBufferCopied == CopiedThenFreed

-----------------------------------------------------------------------------
(* The size of what an array iterator has left.                            *)

\* C27: size_hint() of an array iterator that next() was called k times on,
\* over an array of n items, returns (r, Some(r)) with r = max(n - k, 0),
\* and neither overflows nor panics, however many calls were made after the
\* end.
C27_SizeHintExact ==
    res.call.op = "size_hint" =>
        LET n == PlistArrayGetSize(heap, res.call.it.node)
            k == res.call.it.index
            r == USize(IF n >= k THEN n - k ELSE 0)
        IN  res.call.ret = Some([panic |-> FALSE, lo |-> r, hi |-> Some(r)])

-----------------------------------------------------------------------------
(* Equality as a relation.                                                 *)

-----------------------------------------------------------------------------
(* native.rs, plist.rs: the seconds of a date node, over the whole range   *)
(* of an i64 of seconds.                                                   *)

\* The i64 of value n, for n that TLC can hold: the 32 bits of n, sign-extended.
I64(n) ==
    LET ext == IF n < 0 THEN 2^16 - 1 ELSE 0
    IN  <<n % 2^16, (n \div 2^16) % 2^16, ext, ext>>

I64_MIN == <<0, 0, 0, 2^15>>

I64_MAX == <<2^16 - 1, 2^16 - 1, 2^16 - 1, 2^15 - 1>>

\* -a on i64: the value modulo 2^64, and whether it overflowed.
I64Neg(a) == [v |-> Magnitude(a), overflow |-> a = I64_MIN]

\* a - b on i64: the value modulo 2^64, and whether it overflowed (the signs
\* of a and b differ and the result has not the sign of a).
I64Sub(a, b) ==
    LET v == LimbSum(LimbSum(a, [i \in DOMAIN b |-> 2^16 - 1 - b[i]]), I64(1))
    IN  [v |-> v,
         overflow |-> /\ Negative("i64", a) # Negative("i64", b)
                      /\ Negative("i64", v) # Negative("i64", a)]

\* A faulty narrowing: what does not fit is clamped to the ends of the i32.
I64AsI32Saturating(a) ==
    IF /\ a[3] = a[4] /\ a[3] \in {0, 2^16 - 1}
       /\ (a[2] >= 2^15) = (a[3] = 2^16 - 1)
    THEN (IF a[2] >= 2^15 THEN a[2] - 2^16 ELSE a[2]) * 2^16 + a[1]
    ELSE IF a[4] >= 2^15 THEN (0 - 2^15) * 2^16 ELSE (2^15 - 1) * 2^16 + (2^16 - 1)

\* `x as i32` from i64: the low 32 bits, as a signed number.
I64AsI32(a) == (IF a[2] >= 2^15 THEN a[2] - 2^16 ELSE a[2]) * 2^16 + a[1]

\* The instants of the model, in whole seconds since UNIX_EPOCH: around the
\* epoch, around 2001, around the two ends of an i32 of seconds since 2001,
\* and around the two ends of an i64.
FarSecs ==
    LET offset == I64(TIMESTAMP_OFFSET)
        twoTo31 == <<0, 2^15, 0, 0>>
    IN  {I64(0), I64(-1), I64(1234567890), offset,
         LimbSum(offset, <<2^16 - 1, 2^15 - 1, 0, 0>>), LimbSum(offset, twoTo31),
         I64Sub(offset, twoTo31).v, I64Sub(I64Sub(offset, twoTo31).v, I64(1)).v,
         I64_MAX, I64_MIN, LimbSum(I64_MIN, I64(1)),
         LimbSum(I64_MIN, offset), LimbSum(I64_MIN, I64(TIMESTAMP_OFFSET - 1))}

\* The instants a DateTime can hold are within 2^43 seconds of the epoch.
NearSecs == {s \in FarSecs : s[4] \in {0, 2^16 - 1} /\ s[3] \in {0, 2^16 - 1}}

\* The builds: with overflow checks (an overflow panics) and without (the
\* result wraps).
Builds == {"checked", "wrapping"}

\* impl ToPlistNode for SystemTime on the instant of tv_sec seconds (floored)
\* and nanos nanoseconds since UNIX_EPOCH: the arguments of plist_new_date, or
\* the panic of an overflow.
SystemTimeDate(tv_sec, nanos, build) ==
    LET before == Negative("i64", tv_sec)
        \* e.duration(): UNIX_EPOCH - self, a u64 of seconds and the nanoseconds
        dsecs == IF nanos = 0 THEN Magnitude(tv_sec)
                 ELSE I64Sub(Magnitude(tv_sec), I64(1)).v
        dnanos == IF nanos = 0 THEN 0 ELSE NANOS - nanos
        \* (s, 0) => (-s, 0), (s, n) => (-s-1, 1_000_000_000 - n)
        neg == I64Neg(dsecs)
        sec == IF ~before THEN [v |-> tv_sec, overflow |-> FALSE]
               ELSE IF dnanos = 0 THEN neg
               ELSE [v |-> I64Sub(neg.v, I64(1)).v,
                     overflow |-> neg.overflow \/ I64Sub(neg.v, I64(1)).overflow]
        nsec == IF ~before THEN nanos ELSE IF dnanos = 0 THEN 0 ELSE NANOS - dnanos
        diff == I64Sub(sec.v, I64(TIMESTAMP_OFFSET))
    IN  IF build = "checked" /\ (sec.overflow \/ diff.overflow)
        THEN [panic |-> TRUE, sec |-> 0, usec |-> 0]
        ELSE [panic |-> FALSE, sec |-> I64AsI32(diff.v), usec |-> nsec \div 1000]

\* impl ToPlistNode for DateTime<T> on the instant of timestamp() seconds and
\* nanosecond() nanoseconds (a leap second has 10^9 and more).
DateTimeDate(timestamp, nanosecond, build) ==
    LET sec == I64Sub(timestamp, I64(TIMESTAMP_OFFSET))
    IN  IF build = "checked" /\ sec.overflow THEN [panic |-> TRUE, sec |-> 0, usec |-> 0]
        ELSE [panic |-> FALSE, sec |-> I64AsI32(sec.v),
              usec |-> (nanosecond \div 1000) % MICROS]

InitDate ==
    /\ \/ \E s \in FarSecs, n \in TimeNanos :
            original = [ty |-> "SystemTime", sec |-> s, nanos |-> n]
       \/ \E s \in NearSecs, n \in TimeNanos \cup {NANOS + 1500} :
            original = [ty |-> "DateTime", sec |-> s, nanos |-> n]
    /\ res = [stage |-> "start", build |-> "", date |-> [panic |-> FALSE, sec |-> 0, usec |-> 0]]
    /\ heap = EmptyHeap(1)
    /\ owned = {}
    /\ refs = {}
    /\ leaked = {}
    /\ crashed = FALSE
    /\ last = Quiet

\* original.to_plist_node(), up to the call of plist_new_date
ToDate ==
    /\ res.stage = "start"
    /\ \E build \in Builds :
          res' = [stage |-> "date", build |-> build,
                  date |-> IF original.ty = "SystemTime"
                           THEN SystemTimeDate(original.sec, original.nanos, build)
                           ELSE DateTimeDate(original.sec, original.nanos, build)]
    /\ UNCHANGED <<heap, owned, refs, leaked, crashed, last, original>>

NextDate == ToDate

SpecDate == InitDate /\ [][NextDate]_vars

\* The offset of the original from 2001-01-01T00:00:00Z, modulo 2^64.
Offset2001 == LimbSum(original.sec, Magnitude(I64(TIMESTAMP_OFFSET)))

\* The offset is no i64: the original is more than 2^63 seconds before 2001.
OffsetBelowI64 == Negative("i64", original.sec) /\ ~Negative("i64", Offset2001)

\* The offset is an i32.
OffsetInI32 ==
    /\ ~OffsetBelowI64
    /\ Offset2001[3] = Offset2001[4] /\ Offset2001[3] \in {0, 2^16 - 1}
    /\ (Offset2001[2] >= 2^15) = (Offset2001[3] = 2^16 - 1)

\* The low 32 bits of the offset, as a signed number.
Wrapped32 ==
    (IF Offset2001[2] >= 2^15 THEN Offset2001[2] - 2^16 ELSE Offset2001[2]) * 2^16
        + Offset2001[1]

\* C30 (as the code has it): the seconds of the date node are the offset of
\* the instant from 2001-01-01T00:00:00Z narrowed to an i32 without a range
\* check: the offset itself when it is an i32, the offset modulo 2^32
\* otherwise, with no error and no panic, provided that the offset is an i64;
\* of an instant more than 2^63 seconds before 2001 a build with overflow
\* checks panics, and a build without them stores the offset modulo 2^32.
C30_NarrowedTo32 ==
    res.stage = "date" =>
        /\ res.date.panic <=> (OffsetBelowI64 /\ res.build = "checked")
        /\ ~res.date.panic => res.date.sec = Wrapped32
        /\ OffsetInI32 => ~res.date.panic /\ I64(res.date.sec) = Offset2001

\* The instant 2^31 seconds after 2001 is stored as -2^31 seconds.
C30_Witness ==
    /\ res.stage = "date" /\ original.ty = "SystemTime" /\ ~res.date.panic
    /\ ~OffsetInI32 /\ ~OffsetBelowI64
    /\ Offset2001 = <<0, 2^15, 0, 0>> /\ res.date.sec = (0 - 2^15) * 2^16

\* C30 (as the spec has it): whatever the offset, the stored seconds are the
\* offset modulo 2^32 and nothing panics.
C30_NeverPanics ==
    res.stage = "date" => ~res.date.panic /\ res.date.sec = Wrapped32

=============================================================================
